---- MODULE Spec2Model ----
(***************************************************************************)
(* Rent reconciliation: the JSON entity stores of src/lib/data.ts and the   *)
(* request handlers under src/app/api that read and write them.  Every     *)
(* handler runs synchronously once its request body is parsed, so each is  *)
(* one action.  Amounts are integers in thousandths of a currency unit;     *)
(* strings are sequences of ASCII codes.  accounts.json, tenants.json,      *)
(* transactions.json and csv-uploads.json are sequences in file order.      *)
(* tenant-transactions.json and rejected-matches.json are bags: the entries  *)
(* of the array with their multiplicities, without their order, which no    *)
(* handler's result depends on while a transaction has at most one link.    *)
(***************************************************************************)
EXTENDS Integers, Sequences, FiniteSets, Bags, TLC

VARIABLES accounts, tenants, transactions, tenantTransactions,
          rejectedMatches, csvUploads, last, userRejected, suppressed,
          linksTruncated, retracted, inFlight, syncCursors, truncatedFiles,
          bankHolds

vars == <<accounts, tenants, transactions, tenantTransactions,
          rejectedMatches, csvUploads, last, userRejected, suppressed,
          linksTruncated, retracted, inFlight, syncCursors, truncatedFiles, bankHolds>>

----------------------------------------------------------------------------
(* Bounds of the model *)

\* Number of tenant ids a client uses.
NumTenants == 2
\* Number of transaction ids the bank reports.
NumPlaidTx == 1
\* Number of distinct rows the CSV exports hold.
NumCsvTx == 2
\* Cap on the length of transactions.json.
MaxTransactions == 3
\* Cap on the number of stored CSV upload records.
MaxUploads == 2

TenantIds == 1..NumTenants
PlaidTxIds == 1..NumPlaidTx
CsvTxIds == (NumPlaidTx + 1)..(NumPlaidTx + NumCsvTx)
TxIds == PlaidTxIds \cup CsvTxIds
UploadIds == 1..MaxUploads

\* itemId of the bank connection made by exchange-token, and of the CSV account.
PlaidItem == "item-plaid"
CsvItem == "csv-item"
Items == {PlaidItem, CsvItem}

----------------------------------------------------------------------------
(* Strings and numbers as JavaScript computes them *)

sSMITH == <<83, 77, 73, 84, 72>>
sSmith == <<83, 109, 105, 116, 104>>
sRent == <<114, 101, 110, 116>>
sBlank == <<32>>
sEmpty == <<>>

Abs(x) == IF x < 0 THEN -x ELSE x

ToUpperChar(c) == IF c \in 97..122 THEN c - 32 ELSE c

ToUpper(s) == [i \in 1..Len(s) |-> ToUpperChar(s[i])]

IsSpace(c) == c \in {9, 10, 11, 12, 13, 32}

RECURSIVE TrimStart(_)
TrimStart(s) ==
    IF s # <<>> /\ IsSpace(Head(s)) THEN TrimStart(Tail(s)) ELSE s

RECURSIVE TrimEnd(_)
TrimEnd(s) ==
    IF s # <<>> /\ IsSpace(s[Len(s)])
    THEN TrimEnd(SubSeq(s, 1, Len(s) - 1))
    ELSE s

Trim(s) == TrimEnd(TrimStart(s))

\* String.prototype.includes: the empty needle is included in every string.
Includes(hay, needle) ==
    \E i \in 0..(Len(hay) - Len(needle)) :
        SubSeq(hay, i + 1, i + Len(needle)) = needle

Has(r, f) == f \in DOMAIN r

\* Array.prototype.filter and some over a sequence.
RECURSIVE SelectIdx(_, _, _)
SelectIdx(s, Keep(_), i) ==
    IF i > Len(s) THEN <<>>
    ELSE IF Keep(s[i]) THEN <<s[i]>> \o SelectIdx(s, Keep, i + 1)
    ELSE SelectIdx(s, Keep, i + 1)

Filter(s, Keep(_)) == SelectIdx(s, Keep, 1)

Some(s, P(_)) == \E i \in 1..Len(s) : P(s[i])

Range(s) == {s[i] : i \in 1..Len(s)}

\* filter, some and push over an array kept as a bag.
BagFilter(B, Keep(_)) == [e \in {x \in BagToSet(B) : Keep(x)} |-> B[e]]

BagSome(B, P(_)) == \E e \in BagToSet(B) : P(e)

BagPush(B, e) == B (+) SetToBag({e})

----------------------------------------------------------------------------
(* Records of the stores *)

\* 0.01, the tolerance of the exact-amount comparison, in thousandths.
Epsilon == 10

\* linkedAccounts[].accountId of the account an item holds.
AccountOf(item) == IF item = PlaidItem THEN "acct-plaid" ELSE "csv-acct"

\* Tenant bodies a client posts (name and property are free text no handler
\* reads).  CfgNoTerms lacks the searchTerms list.
CfgSmith ==
    [matchMode |-> "searchTerms", expectedRent |-> 1000000, tolerance |-> 50000,
     searchTerms |-> <<sBlank, sSmith>>, exactAmounts |-> <<>>,
     accountId |-> "acct-plaid"]

CfgExact ==
    [matchMode |-> "exactAmounts", expectedRent |-> 875000, tolerance |-> 0,
     searchTerms |-> <<>>, exactAmounts |-> <<875000>>,
     accountId |-> "acct-plaid"]

CfgNoTerms ==
    [matchMode |-> "searchTerms", expectedRent |-> 1000000, tolerance |-> 50000,
     exactAmounts |-> <<>>, accountId |-> "acct-plaid"]

Configs == {CfgSmith, CfgExact, CfgNoTerms}

\* A tenant body with all the fields the rule check reads.
Rule(mode, rent, tol, terms, amounts) ==
    [matchMode |-> mode, expectedRent |-> rent, tolerance |-> tol,
     searchTerms |-> terms, exactAmounts |-> amounts, accountId |-> "acct-plaid"]

\* The tenant bodies the rule check is run on: search-terms rules around a
\* rent of 1500 with tolerance 50 (a term, a term in other case, a blank
\* term, an empty term, no term), and exact-amount rules for 875.00 with
\* other fields that vary or are missing.
RuleConfigs ==
    {Rule("searchTerms", 1500000, 50000, terms, <<>>) :
        terms \in {<<sSmith>>, <<sRent, sSMITH>>, <<sBlank>>, <<sEmpty>>,
                   <<sEmpty, sEmpty>>, <<>>}}
    \cup {Rule("exactAmounts", 1500000, 50000, <<sSmith>>, <<875000>>),
          Rule("exactAmounts", 0, 0, <<>>, <<1500000, 875000>>),
          Rule("exactAmounts", 875000, 0, <<sSmith>>, <<>>),
          [matchMode |-> "exactAmounts", exactAmounts |-> <<875000>>,
           accountId |-> "acct-plaid"]}

\* The bodies posted for a tenant id: the first tenant is edited between all
\* configurations, every other tenant keeps the search-terms configuration.
ConfigsFor(id) == IF id = 1 THEN Configs \cup RuleConfigs ELSE {CfgSmith}

WithId(cfg, id) == [f \in DOMAIN cfg \cup {"id"} |-> IF f = "id" THEN id ELSE cfg[f]]

\* A transaction as the bank sync first reports it (date, category and
\* pending are read by no handler modelled here).
PlaidAdded(id) ==
    [transactionId |-> id, accountId |-> AccountOf(PlaidItem), itemId |-> PlaidItem,
     amount |-> -1000000, name |-> sSmith, merchantName |-> sRent]

\* The same transaction after the bank corrected its amount.
PlaidModified(id) ==
    [transactionId |-> id, accountId |-> AccountOf(PlaidItem), itemId |-> PlaidItem,
     amount |-> -875000, name |-> sSmith, merchantName |-> sRent]

\* A CSV row; its id is the hash of its content, so equal ids mean equal rows.
\* Even rows are Smith deposits of 1000, odd rows are deposits of 875.004.
CsvRow(id) ==
    IF id % 2 = 0
    THEN [transactionId |-> id, accountId |-> AccountOf(CsvItem), itemId |-> CsvItem,
          amount |-> -1000000, name |-> sSMITH]
    ELSE [transactionId |-> id, accountId |-> AccountOf(CsvItem), itemId |-> CsvItem,
          amount |-> -875004, name |-> sRent]

----------------------------------------------------------------------------
(* src/lib/data.ts: each function as an operator from the file contents it   *)
(* reads to the file contents it writes                                     *)

\* The access tokens the bank hands out for the bank item: linking the item
\* again yields another token.
AccessTokens == {"access-token-1", "access-token-2"}

\* The Account record the token exchange builds.
PlaidAccount(accessToken) ==
    [id |-> PlaidItem, institution |-> "Bank", accessToken |-> accessToken,
     itemId |-> PlaidItem, linkedAccounts |-> <<[accountId |-> "acct-plaid"]>>]

\* The Account record the CSV upload builds.
CsvAccount ==
    [id |-> CsvItem, institution |-> "CSV Bank", accessToken |-> "",
     itemId |-> CsvItem, linkedAccounts |-> <<[accountId |-> "csv-acct"]>>]

\* The body GET /api/plaid/accounts answers with: every stored account
\* without its accessToken field.
AccountsGETListingTokens(stored) == stored

AccountsGET(stored) ==
    [i \in 1..Len(stored) |->
        [f \in (DOMAIN stored[i]) \ {"accessToken"} |-> stored[i][f]]]

\* The body POST /api/plaid/exchange-token answers with after it has saved
\* account.
ExchangeTokenResponse(account) ==
    [success |-> TRUE,
     account |-> [id |-> account.id, institution |-> account.institution,
                  linkedAccounts |-> account.linkedAccounts]]

saveAccount(existing, account) ==
    IF \E i \in 1..Len(existing) : existing[i].id = account.id
    THEN [i \in 1..Len(existing) |->
            IF i = (CHOOSE k \in 1..Len(existing) :
                      /\ existing[k].id = account.id
                      /\ \A m \in 1..(k - 1) : existing[m].id # account.id)
            THEN account ELSE existing[i]]
    ELSE Append(existing, account)

deleteAccount(existing, id) ==
    LET Keep(a) == a.id # id IN Filter(existing, Keep)

\* saveTenant moving an edited tenant to the end of the list.
saveTenantMovingLast(existing, tenant) ==
    LET Others(t) == t.id # tenant.id
    IN  Append(Filter(existing, Others), tenant)

saveTenant(existing, tenant) ==
    IF \E i \in 1..Len(existing) : existing[i].id = tenant.id
    THEN [i \in 1..Len(existing) |->
            IF i = (CHOOSE k \in 1..Len(existing) :
                      /\ existing[k].id = tenant.id
                      /\ \A m \in 1..(k - 1) : existing[m].id # tenant.id)
            THEN tenant ELSE existing[i]]
    ELSE Append(existing, tenant)

deleteTenant(existing, id) ==
    LET Keep(t) == t.id # id IN Filter(existing, Keep)

saveTransactions(existing, batch) ==
    LET existingIds == {existing[i].transactionId : i \in 1..Len(existing)}
        IsNew(t) == t.transactionId \notin existingIds
    IN  existing \o Filter(batch, IsNew)

updateTransactions(existing, batch) ==
    \* new Map(entries): the last entry of an id wins
    LET Update(t) ==
            IF \E i \in 1..Len(batch) : batch[i].transactionId = t.transactionId
            THEN batch[CHOOSE k \in 1..Len(batch) :
                         /\ batch[k].transactionId = t.transactionId
                         /\ \A m \in (k + 1)..Len(batch) :
                                batch[m].transactionId # t.transactionId]
            ELSE t
    IN  [i \in 1..Len(existing) |-> Update(existing[i])]

removeTransactions(existing, transactionIds) ==
    LET Keep(t) == t.transactionId \notin Range(transactionIds)
    IN  Filter(existing, Keep)

\* getSyncCursor(itemId)?.cursor || '' with the empty cursor as 0
getSyncCursor(cursors, itemId) ==
    LET hits == {i \in 1..Len(cursors) : cursors[i].itemId = itemId}
    IN  IF hits = {} THEN 0
        ELSE cursors[CHOOSE k \in hits : \A m \in hits : k <= m].cursor

saveSyncCursor(cursors, cursor) ==
    IF \E i \in 1..Len(cursors) : cursors[i].itemId = cursor.itemId
    THEN [i \in 1..Len(cursors) |->
            IF i = (CHOOSE k \in 1..Len(cursors) :
                      /\ cursors[k].itemId = cursor.itemId
                      /\ \A m \in 1..(k - 1) : cursors[m].itemId # cursor.itemId)
            THEN cursor ELSE cursors[i]]
    ELSE Append(cursors, cursor)

\* The link record addTenantTransaction pushes; its id is `${tenantId}-${transactionId}`.
Link(tenantId, transactionId, manualOverride) ==
    [id |-> <<tenantId, transactionId>>, tenantId |-> tenantId,
     transactionId |-> transactionId, manualOverride |-> manualOverride]

\* getTenantTransactionByTransactionId finding automatic links only.
getTenantTransactionByTransactionIdAuto(existing, transactionId) ==
    LET hits == {tt \in BagToSet(existing) :
                    tt.transactionId = transactionId /\ ~tt.manualOverride}
    IN  IF hits = {} THEN <<>> ELSE <<CHOOSE tt \in hits : TRUE>>

getTenantTransactionByTransactionId(existing, transactionId) ==
    \* find: a link of the transaction, as a sequence of length <= 1
    LET hits == {tt \in BagToSet(existing) : tt.transactionId = transactionId}
    IN  IF hits = {} THEN <<>> ELSE <<CHOOSE tt \in hits : TRUE>>

\* addTenantTransaction without its look for a link of the same transaction.
addTenantTransactionUnchecked(existing, tenantId, transactionId, manualOverride) ==
    BagPush(existing, Link(tenantId, transactionId, manualOverride))

addTenantTransaction(existing, tenantId, transactionId, manualOverride) ==
    LET Same(tt) == tt.transactionId = transactionId
    IN  IF BagSome(existing, Same)
        THEN existing
        ELSE BagPush(existing, Link(tenantId, transactionId, manualOverride))

removeTenantTransaction(existing, transactionId) ==
    LET Keep(tt) == tt.transactionId # transactionId IN BagFilter(existing, Keep)

removeTenantTransactionsForTenant(existing, tenantId) ==
    LET Keep(tt) == tt.tenantId # tenantId IN BagFilter(existing, Keep)

\* addRejectedMatch without its look for an entry of the same pair.
addRejectedMatchUnchecked(existing, tenantId, transactionId) ==
    BagPush(existing, [tenantId |-> tenantId, transactionId |-> transactionId])

addRejectedMatch(existing, tenantId, transactionId) ==
    LET Same(rm) == rm.tenantId = tenantId /\ rm.transactionId = transactionId
    IN  IF BagSome(existing, Same)
        THEN existing
        ELSE BagPush(existing, [tenantId |-> tenantId, transactionId |-> transactionId])

\* isMatchRejected comparing the two ids with the wrong fields.
isMatchRejectedSwapped(existing, tenantId, transactionId) ==
    LET Hit(rm) == rm.tenantId = transactionId /\ rm.transactionId = tenantId
    IN  BagSome(existing, Hit)

isMatchRejected(existing, tenantId, transactionId) ==
    LET Hit(rm) == rm.tenantId = tenantId /\ rm.transactionId = transactionId
    IN  BagSome(existing, Hit)

\* removeRejectedMatch dropping the rejections of the transaction for every
\* tenant.
removeRejectedMatchOfTransaction(existing, tenantId, transactionId) ==
    LET Keep(rm) == rm.transactionId # transactionId
    IN  BagFilter(existing, Keep)

removeRejectedMatch(existing, tenantId, transactionId) ==
    LET Keep(rm) == ~(rm.tenantId = tenantId /\ rm.transactionId = transactionId)
    IN  BagFilter(existing, Keep)

\* removeRejectedMatchesForTenant comparing the tenant id with the wrong field.
removeRejectedMatchesForTenantByTransaction(existing, tenantId) ==
    LET Keep(rm) == rm.transactionId # tenantId IN BagFilter(existing, Keep)

removeRejectedMatchesForTenant(existing, tenantId) ==
    LET Keep(rm) == rm.tenantId # tenantId IN BagFilter(existing, Keep)

saveCsvUpload(existing, upload) ==
    IF \E i \in 1..Len(existing) : existing[i].id = upload.id
    THEN [i \in 1..Len(existing) |->
            IF i = (CHOOSE k \in 1..Len(existing) :
                      /\ existing[k].id = upload.id
                      /\ \A m \in 1..(k - 1) : existing[m].id # upload.id)
            THEN upload ELSE existing[i]]
    ELSE Append(existing, upload)

\* deleteCsvUpload: the upload found (length <= 1) and the uploads that remain.
deleteCsvUpload(existing, uploadId) ==
    LET IsIt(u) == u.id = uploadId
        Keep(u) == u.id # uploadId
        found == Filter(existing, IsIt)
    IN  IF found = <<>>
        THEN [upload |-> <<>>, remaining |-> existing]
        ELSE [upload |-> <<Head(found)>>, remaining |-> Filter(existing, Keep)]

deleteCsvUploadsForAccount(existing, accountId) ==
    LET Keep(u) == u.accountId # accountId IN Filter(existing, Keep)

----------------------------------------------------------------------------
(* The rule check, once as the match route computes it and once as          *)
(* reEvaluateTenantMatches computes it.  A missing number makes the          *)
(* arithmetic NaN, so every comparison with it is false; reading .some of a  *)
(* missing list throws.                                                     *)

\* `${name} ${merchantName || ''}`.toUpperCase()
Description(transaction) ==
    ToUpper(transaction.name \o <<32>> \o
            (IF Has(transaction, "merchantName") THEN transaction.merchantName ELSE <<>>))

\* The rule check of the match route with the amount bounds excluded.
IsMatchOpenInterval(tenant, deposit) ==
    LET depositAmount == Abs(deposit.amount)
        matchMode == IF Has(tenant, "matchMode") THEN tenant.matchMode ELSE "searchTerms"
        exactAmounts == IF Has(tenant, "exactAmounts") THEN tenant.exactAmounts ELSE <<>>
        Near(amount) == Abs(depositAmount - amount) < Epsilon
        inRange == /\ Has(tenant, "expectedRent") /\ Has(tenant, "tolerance")
                   /\ depositAmount > tenant.expectedRent - tenant.tolerance
                   /\ depositAmount < tenant.expectedRent + tenant.tolerance
        TermHit(term) == Trim(term) # <<>> /\ Includes(Description(deposit), ToUpper(term))
    IN  IF matchMode = "exactAmounts"
        THEN IF Some(exactAmounts, Near) THEN "match" ELSE "nomatch"
        ELSE IF ~inRange THEN "nomatch"
        ELSE IF ~Has(tenant, "searchTerms") THEN "throw"
        ELSE IF Some(tenant.searchTerms, TermHit) THEN "match" ELSE "nomatch"

\* The rule check of the older revision of the match route: no match mode
\* and no test for empty terms.
IsMatchOlderRevision(tenant, deposit) ==
    LET depositAmount == Abs(deposit.amount)
        inRange == /\ Has(tenant, "expectedRent") /\ Has(tenant, "tolerance")
                   /\ depositAmount >= tenant.expectedRent - tenant.tolerance
                   /\ depositAmount <= tenant.expectedRent + tenant.tolerance
        TermHit(term) == Includes(Description(deposit), ToUpper(term))
    IN  IF ~inRange THEN "nomatch"
        ELSE IF ~Has(tenant, "searchTerms") THEN "throw"
        ELSE IF Some(tenant.searchTerms, TermHit) THEN "match" ELSE "nomatch"

\* match route, lines 39-62: "match", "nomatch" or "throw"
IsMatch(tenant, deposit) ==
    LET depositAmount == Abs(deposit.amount)
        matchMode == IF Has(tenant, "matchMode") THEN tenant.matchMode ELSE "searchTerms"
        exactAmounts == IF Has(tenant, "exactAmounts") THEN tenant.exactAmounts ELSE <<>>
        Near(amount) == Abs(depositAmount - amount) < Epsilon
        inRange == /\ Has(tenant, "expectedRent") /\ Has(tenant, "tolerance")
                   /\ depositAmount >= tenant.expectedRent - tenant.tolerance
                   /\ depositAmount <= tenant.expectedRent + tenant.tolerance
        TermHit(term) == Trim(term) # <<>> /\ Includes(Description(deposit), ToUpper(term))
    IN  IF matchMode = "exactAmounts"
        THEN IF Some(exactAmounts, Near) THEN "match" ELSE "nomatch"
        ELSE IF ~inRange THEN "nomatch"
        ELSE IF ~Has(tenant, "searchTerms") THEN "throw"
        ELSE IF Some(tenant.searchTerms, TermHit) THEN "match" ELSE "nomatch"

\* The rule check of reEvaluateTenantMatches with the amount range tested in
\* both modes.
StillMatchesInRange(tenant, transaction) ==
    LET depositAmount == Abs(transaction.amount)
        matchMode == IF Has(tenant, "matchMode") THEN tenant.matchMode ELSE "searchTerms"
        exactAmounts == IF Has(tenant, "exactAmounts") THEN tenant.exactAmounts ELSE <<>>
        Near(amount) == Abs(depositAmount - amount) < Epsilon
        inRange == /\ Has(tenant, "expectedRent") /\ Has(tenant, "tolerance")
                   /\ depositAmount >= tenant.expectedRent - tenant.tolerance
                   /\ depositAmount <= tenant.expectedRent + tenant.tolerance
        TermHit(term) ==
            Trim(term) # <<>> /\ Includes(Description(transaction), ToUpper(term))
    IN  IF ~inRange THEN "nomatch"
        ELSE IF matchMode = "exactAmounts"
        THEN IF Some(exactAmounts, Near) THEN "match" ELSE "nomatch"
        ELSE IF ~Has(tenant, "searchTerms") THEN "throw"
        ELSE IF Some(tenant.searchTerms, TermHit) THEN "match" ELSE "nomatch"

\* reEvaluateTenantMatches, lines 305-325: "match", "nomatch" or "throw"
StillMatches(tenant, transaction) ==
    LET depositAmount == Abs(transaction.amount)
        matchMode == IF Has(tenant, "matchMode") THEN tenant.matchMode ELSE "searchTerms"
        exactAmounts == IF Has(tenant, "exactAmounts") THEN tenant.exactAmounts ELSE <<>>
        Near(amount) == Abs(depositAmount - amount) < Epsilon
        inRange == /\ Has(tenant, "expectedRent") /\ Has(tenant, "tolerance")
                   /\ depositAmount >= tenant.expectedRent - tenant.tolerance
                   /\ depositAmount <= tenant.expectedRent + tenant.tolerance
        TermHit(term) ==
            Trim(term) # <<>> /\ Includes(Description(transaction), ToUpper(term))
    IN  IF matchMode = "exactAmounts"
        THEN IF Some(exactAmounts, Near) THEN "match" ELSE "nomatch"
        ELSE IF ~inRange THEN "nomatch"
        ELSE IF ~Has(tenant, "searchTerms") THEN "throw"
        ELSE IF Some(tenant.searchTerms, TermHit) THEN "match" ELSE "nomatch"

\* allTransactions.find(t => t.transactionId === id), as a sequence of length <= 1
FindTransaction(allTransactions, transactionId) ==
    LET hits == {i \in 1..Len(allTransactions) :
                    allTransactions[i].transactionId = transactionId}
    IN  IF hits = {} THEN <<>>
        ELSE <<allTransactions[CHOOSE k \in hits : \A m \in hits : k <= m]>>

\* The verdict of the loop body of reEvaluateTenantMatches on one link:
\* a link whose transaction is gone is removed like one that does not match.
LinkVerdict(tt, allTransactions, tenant) ==
    LET found == FindTransaction(allTransactions, tt.transactionId)
    IN  IF found = <<>> THEN "nomatch" ELSE StillMatches(tenant, found[1])

\* reEvaluateTenantMatches without the manualOverride test of its first filter.
reEvaluateTenantMatchesAnyLink(existing, allTransactions, tenant) ==
    LET IsOfTenant(tt) == tt.tenantId = tenant.id
        autoMatched == BagFilter(existing, IsOfTenant)
        Throws(tt) == LinkVerdict(tt, allTransactions, tenant) = "throw"
        Fails(tt) == LinkVerdict(tt, allTransactions, tenant) = "nomatch"
        toRemove == BagFilter(autoMatched, Fails)
        transactionsToRemove == {tt.transactionId : tt \in BagToSet(toRemove)}
        Keep(tt) == tt.transactionId \notin transactionsToRemove
    IN  IF BagSome(autoMatched, Throws)
        THEN [threw |-> TRUE, links |-> existing, count |-> 0]
        ELSE [threw |-> FALSE,
              links |-> IF BagCardinality(toRemove) > 0
                        THEN BagFilter(existing, Keep) ELSE existing,
              count |-> BagCardinality(toRemove)]

\* reEvaluateTenantMatches: what it leaves in tenant-transactions.json and
\* what it returns, or that it threw (having written nothing).
reEvaluateTenantMatches(existing, allTransactions, tenant) ==
    LET IsAuto(tt) == tt.tenantId = tenant.id /\ ~tt.manualOverride
        autoMatched == BagFilter(existing, IsAuto)
        Throws(tt) == LinkVerdict(tt, allTransactions, tenant) = "throw"
        Fails(tt) == LinkVerdict(tt, allTransactions, tenant) = "nomatch"
        toRemove == BagFilter(autoMatched, Fails)
        transactionsToRemove == {tt.transactionId : tt \in BagToSet(toRemove)}
        Keep(tt) == tt.transactionId \notin transactionsToRemove
    IN  IF BagSome(autoMatched, Throws)
        THEN [threw |-> TRUE, links |-> existing, count |-> 0]
        ELSE [threw |-> FALSE,
              links |-> IF BagCardinality(toRemove) > 0
                        THEN BagFilter(existing, Keep) ELSE existing,
              count |-> BagCardinality(toRemove)]

\* The tenant loop of the match route for one deposit, from tenant j on:
\* the index of the first tenant that matches, 0 when none does, -1 when the
\* rule check throws.
\* The tenant loop leaving the loop at a tenant for whom the deposit is
\* rejected.
RECURSIVE FirstMatchStoppingAtRejected(_, _, _, _)
FirstMatchStoppingAtRejected(tenantList, rejected, deposit, j) ==
    IF j > Len(tenantList) THEN 0
    ELSE IF isMatchRejected(rejected, tenantList[j].id, deposit.transactionId)
         THEN 0
    ELSE LET verdict == IsMatch(tenantList[j], deposit)
         IN  IF verdict = "throw" THEN -1
             ELSE IF verdict = "match" THEN j
             ELSE FirstMatchStoppingAtRejected(tenantList, rejected, deposit, j + 1)

RECURSIVE FirstMatch(_, _, _, _)
FirstMatch(tenantList, rejected, deposit, j) ==
    IF j > Len(tenantList) THEN 0
    ELSE IF isMatchRejected(rejected, tenantList[j].id, deposit.transactionId)
         THEN FirstMatch(tenantList, rejected, deposit, j + 1)
    ELSE LET verdict == IsMatch(tenantList[j], deposit)
         IN  IF verdict = "throw" THEN -1
             ELSE IF verdict = "match" THEN j
             ELSE FirstMatch(tenantList, rejected, deposit, j + 1)

\* The deposit loop without assignedIds.add after a match.
RECURSIVE MatchLoopNotNoting(_, _, _, _, _, _, _)
MatchLoopNotNoting(deposits, i, tenantList, rejected, links, assignedIds, matchedCount) ==
    IF i > Len(deposits)
    THEN [threw |-> FALSE, links |-> links, matched |-> matchedCount]
    ELSE
      LET deposit == deposits[i]
      IN  IF deposit.transactionId \in assignedIds
          THEN MatchLoopNotNoting(deposits, i + 1, tenantList, rejected, links,
                                  assignedIds, matchedCount)
          ELSE
            LET j == FirstMatch(tenantList, rejected, deposit, 1)
            IN  IF j = -1
                THEN [threw |-> TRUE, links |-> links, matched |-> matchedCount]
                ELSE IF j = 0
                THEN MatchLoopNotNoting(deposits, i + 1, tenantList, rejected, links,
                                        assignedIds, matchedCount)
                ELSE MatchLoopNotNoting(deposits, i + 1, tenantList, rejected,
                                        addTenantTransaction(links, tenantList[j].id,
                                                             deposit.transactionId, FALSE),
                                        assignedIds, matchedCount + 1)

\* The deposit loop of the match route from deposit i on.
RECURSIVE MatchLoop(_, _, _, _, _, _, _)
MatchLoop(deposits, i, tenantList, rejected, links, assignedIds, matchedCount) ==
    IF i > Len(deposits)
    THEN [threw |-> FALSE, links |-> links, matched |-> matchedCount]
    ELSE
      LET deposit == deposits[i]
      IN  IF deposit.transactionId \in assignedIds
          THEN MatchLoop(deposits, i + 1, tenantList, rejected, links,
                         assignedIds, matchedCount)
          ELSE
            LET j == FirstMatch(tenantList, rejected, deposit, 1)
            IN  IF j = -1
                THEN [threw |-> TRUE, links |-> links, matched |-> matchedCount]
                ELSE IF j = 0
                THEN MatchLoop(deposits, i + 1, tenantList, rejected, links,
                               assignedIds, matchedCount)
                ELSE MatchLoop(deposits, i + 1, tenantList, rejected,
                               addTenantTransaction(links, tenantList[j].id,
                                                    deposit.transactionId, FALSE),
                               assignedIds \cup {deposit.transactionId},
                               matchedCount + 1)

\* The match route starting from the manual links only, as if it rebuilt the
\* automatic ones.
AutoMatchRebuilding(tenantList, allTransactions, existingAssignments, rejected) ==
    LET IsDeposit(t) == t.amount < 0
        IsManual(tt) == tt.manualOverride
        kept == BagFilter(existingAssignments, IsManual)
        deposits == Filter(allTransactions, IsDeposit)
        assignedIds == {tt.transactionId : tt \in BagToSet(kept)}
    IN  MatchLoop(deposits, 1, tenantList, rejected, kept, assignedIds, 0)

\* The body of the match route: the links it leaves and the count it reports.
AutoMatch(tenantList, allTransactions, existingAssignments, rejected) ==
    LET IsDeposit(t) == t.amount < 0
        deposits == Filter(allTransactions, IsDeposit)
        assignedIds == {tt.transactionId : tt \in BagToSet(existingAssignments)}
    IN  MatchLoop(deposits, 1, tenantList, rejected, existingAssignments,
                  assignedIds, 0)

\* The deposit loop of the match route when writeJsonFile throws in the call
\* of addTenantTransaction that follows writesLeft successful ones: failed
\* tells that the loop reached that call, links are the records the earlier
\* calls wrote.
RECURSIVE MatchLoopWriteFailing(_, _, _, _, _, _, _)
MatchLoopWriteFailing(deposits, i, tenantList, rejected, links, assignedIds, writesLeft) ==
    IF i > Len(deposits)
    THEN [threw |-> FALSE, failed |-> FALSE, links |-> links]
    ELSE
      LET deposit == deposits[i]
      IN  IF deposit.transactionId \in assignedIds
          THEN MatchLoopWriteFailing(deposits, i + 1, tenantList, rejected, links,
                                     assignedIds, writesLeft)
          ELSE
            LET j == FirstMatch(tenantList, rejected, deposit, 1)
            IN  IF j = -1
                THEN [threw |-> TRUE, failed |-> FALSE, links |-> links]
                ELSE IF j = 0
                THEN MatchLoopWriteFailing(deposits, i + 1, tenantList, rejected,
                                           links, assignedIds, writesLeft)
                ELSE IF writesLeft = 0
                THEN [threw |-> TRUE, failed |-> TRUE, links |-> links]
                ELSE MatchLoopWriteFailing(deposits, i + 1, tenantList, rejected,
                                           addTenantTransaction(links, tenantList[j].id,
                                                                deposit.transactionId, FALSE),
                                           assignedIds \cup {deposit.transactionId},
                                           writesLeft - 1)

\* The body of the match route with that failing write.
AutoMatchWriteFailing(tenantList, allTransactions, existingAssignments, rejected, writesLeft) ==
    LET IsDeposit(t) == t.amount < 0
        deposits == Filter(allTransactions, IsDeposit)
        assignedIds == {tt.transactionId : tt \in BagToSet(existingAssignments)}
    IN  MatchLoopWriteFailing(deposits, 1, tenantList, rejected, existingAssignments,
                              assignedIds, writesLeft)

----------------------------------------------------------------------------
(* State *)

\* What the last handler was asked and what it answered: id is the account
\* or upload id of the request, t and x its tenantId and transactionId (0 when
\* it has none; for an unassign t is the tenantId of the link it found), n
\* the count in the response (0 when it has none), isEdit the flag of the
\* tenants route.
Answer(op, id, t, x, status, n, isEdit) ==
    [op |-> op, id |-> id, t |-> t, x |-> x, status |-> status, n |-> n,
     isEdit |-> isEdit]

Init ==
    /\ accounts = <<>>
    /\ tenants = <<>>
    /\ transactions = <<>>
    /\ tenantTransactions = EmptyBag
    /\ rejectedMatches = EmptyBag
    /\ csvUploads = <<>>
    /\ last = Answer("none", 0, 0, 0, "ok", 0, FALSE)
    /\ userRejected = {}
    /\ suppressed = {}
    /\ linksTruncated = FALSE
    /\ retracted = {}
    /\ inFlight = {}
    /\ syncCursors = <<>>
    /\ truncatedFiles = {}
    /\ bankHolds = 0

TransactionIdsOf(txs) == {txs[i].transactionId : i \in 1..Len(txs)}

----------------------------------------------------------------------------
(* Handlers *)

\* POST /api/plaid/exchange-token
ExchangeTokenPOST ==
    /\ \/ /\ \E accessToken \in AccessTokens :
                accounts' = saveAccount(accounts, PlaidAccount(accessToken))
          /\ last' = Answer("exchangeToken", 0, 0, 0, "ok", 0, FALSE)
       \/ /\ accounts' = accounts
          /\ last' = Answer("exchangeToken", 0, 0, 0, "error", 0, FALSE)
    /\ UNCHANGED <<tenants, transactions, tenantTransactions, rejectedMatches,
                   csvUploads>>

\* POST /api/plaid/csv-upload with a well-formed file
CsvUploadPOST(rows) ==
    LET batch == [i \in 1..Len(rows) |-> CsvRow(rows[i])]
        existingIds == TransactionIdsOf(transactions)
        IsNew(t) == t.transactionId \notin existingIds
        newTransactions == Filter(batch, IsNew)
        free == UploadIds \ {csvUploads[i].id : i \in 1..Len(csvUploads)}
        uuid == CHOOSE u \in free : \A v \in free : u <= v
    IN  /\ Len(transactions) + Len(newTransactions) <= MaxTransactions
        /\ Len(newTransactions) > 0 => free # {}
        /\ accounts' = saveAccount(accounts, CsvAccount)
        /\ transactions' = saveTransactions(transactions, batch)
        /\ csvUploads' =
              IF Len(newTransactions) > 0
              THEN saveCsvUpload(csvUploads,
                      [id |-> uuid, accountId |-> CsvItem,
                       transactionIds |->
                          [i \in 1..Len(newTransactions) |->
                              newTransactions[i].transactionId]])
              ELSE csvUploads
        /\ last' = Answer("csvUpload", 0, 0, 0, "ok", Len(newTransactions), FALSE)
        /\ UNCHANGED <<tenants, tenantTransactions, rejectedMatches>>

\* DELETE /api/data/csv-uploads
CsvUploadsDELETE(uploadId) ==
    LET r == deleteCsvUpload(csvUploads, uploadId)
    IN  IF r.upload = <<>>
        THEN /\ last' = Answer("deleteCsvUpload", uploadId, 0, 0, "notfound", 0, FALSE)
             /\ UNCHANGED <<accounts, tenants, transactions, tenantTransactions,
                            rejectedMatches, csvUploads>>
        ELSE
          LET transactionIdsToDelete == Range(r.upload[1].transactionIds)
              KeepT(t) == t.transactionId \notin transactionIdsToDelete
              KeepL(tt) == tt.transactionId \notin transactionIdsToDelete
              KeepR(rm) == rm.transactionId \notin transactionIdsToDelete
          IN  /\ csvUploads' = r.remaining
              /\ transactions' = Filter(transactions, KeepT)
              /\ tenantTransactions' = BagFilter(tenantTransactions, KeepL)
              /\ rejectedMatches' = BagFilter(rejectedMatches, KeepR)
              /\ last' = Answer("deleteCsvUpload", uploadId, 0, 0, "ok",
                                Len(r.upload[1].transactionIds), FALSE)
              /\ UNCHANGED <<accounts, tenants>>

\* The accounts DELETE handler without its clean-up of links and rejections.
AccountsDELETEWithoutCascade(id) ==
    LET IsOwned(t) == t.itemId = id
        transactionsToDelete == Filter(transactions, IsOwned)
        KeepT(t) == t.itemId # id
    IN  /\ transactions' = Filter(transactions, KeepT)
        /\ csvUploads' = deleteCsvUploadsForAccount(csvUploads, id)
        /\ accounts' = deleteAccount(accounts, id)
        /\ last' = Answer("deleteAccount", id, 0, 0, "ok", Len(transactionsToDelete),
                         FALSE)
        /\ UNCHANGED <<tenants, tenantTransactions, rejectedMatches>>

\* DELETE /api/data/accounts
AccountsDELETE(id) ==
    LET IsOwned(t) == t.itemId = id
        transactionsToDelete == Filter(transactions, IsOwned)
        transactionIdsToDelete == TransactionIdsOf(transactionsToDelete)
        KeepT(t) == t.itemId # id
        KeepL(tt) == tt.transactionId \notin transactionIdsToDelete
        KeepR(rm) == rm.transactionId \notin transactionIdsToDelete
    IN  /\ transactions' = Filter(transactions, KeepT)
        /\ tenantTransactions' = BagFilter(tenantTransactions, KeepL)
        /\ rejectedMatches' = BagFilter(rejectedMatches, KeepR)
        /\ csvUploads' = deleteCsvUploadsForAccount(csvUploads, id)
        /\ accounts' = deleteAccount(accounts, id)
        /\ last' = Answer("deleteAccount", id, 0, 0, "ok", Len(transactionsToDelete),
                         FALSE)
        /\ UNCHANGED tenants

\* What the bank answers to transactionsSync for the linked item: the call
\* fails, or it reports one transaction as added, modified or removed.
BankResponses ==
    {[fails |-> TRUE, added |-> <<>>, modified |-> <<>>, removed |-> <<>>]}
    \cup {[fails |-> FALSE, added |-> <<PlaidAdded(id)>>, modified |-> <<>>,
           removed |-> <<>>] : id \in PlaidTxIds}
    \cup {[fails |-> FALSE, added |-> <<>>, modified |-> <<PlaidModified(id)>>,
           removed |-> <<>>] : id \in PlaidTxIds}
    \cup {[fails |-> FALSE, added |-> <<>>, modified |-> <<>>,
           removed |-> <<id>>] : id \in PlaidTxIds}

\* An account stored by the CSV upload has no access token: the bank refuses it.
BankAnswer(account, response) ==
    IF account.accessToken = ""
    THEN [fails |-> TRUE, added |-> <<>>, modified |-> <<>>, removed |-> <<>>]
    ELSE response

\* The account loop of the sync route from account i on: transactions.json
\* and the totals when the loop ends.
RECURSIVE SyncLoop(_, _, _, _, _)
SyncLoop(accountList, i, response, txs, totalAdded) ==
    IF i > Len(accountList) THEN [transactions |-> txs, added |-> totalAdded]
    ELSE
      LET b == BankAnswer(accountList[i], response)
          afterAdd == IF Len(b.added) > 0 THEN saveTransactions(txs, b.added) ELSE txs
          afterMod == IF Len(b.modified) > 0
                      THEN updateTransactions(afterAdd, b.modified) ELSE afterAdd
          afterRem == IF Len(b.removed) > 0
                      THEN removeTransactions(afterMod, b.removed) ELSE afterMod
      IN  IF b.fails
          THEN SyncLoop(accountList, i + 1, response, txs, totalAdded)
          ELSE SyncLoop(accountList, i + 1, response, afterRem,
                        totalAdded + Len(b.added))

\* POST /api/plaid/transactions
PlaidTransactionsPOST(response) ==
    IF Len(accounts) = 0
    THEN /\ last' = Answer("sync", 0, 0, 0, "noaccounts", 0, FALSE)
         /\ UNCHANGED <<accounts, tenants, transactions, tenantTransactions,
                        rejectedMatches, csvUploads>>
    ELSE
      LET r == SyncLoop(accounts, 1, response, transactions, 0)
      IN  /\ Len(r.transactions) <= MaxTransactions
          /\ transactions' = r.transactions
          /\ last' = Answer("sync", 0, 0, 0, "ok", r.added, FALSE)
          /\ UNCHANGED <<accounts, tenants, tenantTransactions, rejectedMatches,
                         csvUploads>>

\* The tenants POST storing a rejection for every link the re-evaluation
\* removed.
TenantsPOSTRejecting(id, cfg) ==
    LET stored == {tenants[i].id : i \in 1..Len(tenants)}
        isEdit == id # 0 /\ id \in stored
        unused == TenantIds \ stored
        tenantId == IF id = 0 THEN CHOOSE u \in unused : \A v \in unused : u <= v
                    ELSE id
        tenant == WithId(cfg, tenantId)
        r == reEvaluateTenantMatches(tenantTransactions, transactions, tenant)
        removed == {[tenantId |-> tt.tenantId, transactionId |-> tt.transactionId] :
                       tt \in BagToSet(tenantTransactions (-) r.links)}
    IN  /\ id = 0 => unused # {}
        /\ cfg \in ConfigsFor(tenantId)
        /\ tenants' = saveTenant(tenants, tenant)
        /\ IF isEdit
           THEN /\ tenantTransactions' = r.links
                /\ rejectedMatches' =
                      rejectedMatches (+) SetToBag(removed \ BagToSet(rejectedMatches))
                /\ last' = Answer("saveTenant", 0, tenantId, 0,
                                  IF r.threw THEN "error" ELSE "ok", r.count, TRUE)
           ELSE /\ tenantTransactions' = tenantTransactions
                /\ rejectedMatches' = rejectedMatches
                /\ last' = Answer("saveTenant", 0, tenantId, 0, "ok", 0, FALSE)
        /\ UNCHANGED <<accounts, transactions, csvUploads>>

\* POST /api/data/tenants; id 0 stands for a body without id
TenantsPOST(id, cfg) ==
    LET stored == {tenants[i].id : i \in 1..Len(tenants)}
        isEdit == id # 0 /\ id \in stored
        unused == TenantIds \ stored
        tenantId == IF id = 0 THEN CHOOSE u \in unused : \A v \in unused : u <= v
                    ELSE id
        tenant == WithId(cfg, tenantId)
        r == reEvaluateTenantMatches(tenantTransactions, transactions, tenant)
    IN  /\ id = 0 => unused # {}
        /\ cfg \in ConfigsFor(tenantId)
        /\ tenants' = saveTenant(tenants, tenant)
        /\ IF isEdit
           THEN /\ tenantTransactions' = r.links
                /\ last' = Answer("saveTenant", 0, tenantId, 0,
                                  IF r.threw THEN "error" ELSE "ok", r.count, TRUE)
           ELSE /\ tenantTransactions' = tenantTransactions
                /\ last' = Answer("saveTenant", 0, tenantId, 0, "ok", 0, FALSE)
        /\ UNCHANGED <<accounts, transactions, rejectedMatches, csvUploads>>

\* DELETE /api/data/tenants
TenantsDELETE(id) ==
    /\ tenantTransactions' = removeTenantTransactionsForTenant(tenantTransactions, id)
    /\ rejectedMatches' = removeRejectedMatchesForTenant(rejectedMatches, id)
    /\ tenants' = deleteTenant(tenants, id)
    /\ last' = Answer("deleteTenant", 0, id, 0, "ok", 0, FALSE)
    /\ UNCHANGED <<accounts, transactions, csvUploads>>

\* The manual assign without its call of removeRejectedMatch.
TenantTransactionsPOSTKeepingRejection(tenantId, transactionId) ==
    /\ rejectedMatches' = rejectedMatches
    /\ tenantTransactions' =
          addTenantTransaction(tenantTransactions, tenantId, transactionId, TRUE)
    /\ last' = Answer("assign", 0, tenantId, transactionId, "ok", 0, FALSE)
    /\ UNCHANGED <<accounts, tenants, transactions, csvUploads>>

\* POST /api/data/tenant-transactions (manual assign)
TenantTransactionsPOST(tenantId, transactionId) ==
    /\ rejectedMatches' = removeRejectedMatch(rejectedMatches, tenantId, transactionId)
    /\ tenantTransactions' =
          addTenantTransaction(tenantTransactions, tenantId, transactionId, TRUE)
    /\ last' = Answer("assign", 0, tenantId, transactionId, "ok", 0, FALSE)
    /\ UNCHANGED <<accounts, tenants, transactions, csvUploads>>

\* DELETE /api/data/tenant-transactions (unassign)
TenantTransactionsDELETE(transactionId) ==
    LET assignment ==
            getTenantTransactionByTransactionId(tenantTransactions, transactionId)
    IN  /\ rejectedMatches' =
              IF assignment # <<>>
              THEN addRejectedMatch(rejectedMatches, assignment[1].tenantId,
                                    transactionId)
              ELSE rejectedMatches
        /\ tenantTransactions' = removeTenantTransaction(tenantTransactions, transactionId)
        /\ last' = Answer("unassign", 0,
                          IF assignment # <<>> THEN assignment[1].tenantId ELSE 0,
                          transactionId, "ok", 0, FALSE)
        /\ UNCHANGED <<accounts, tenants, transactions, csvUploads>>

\* POST /api/data/match
MatchPOST ==
    LET r == AutoMatch(tenants, transactions, tenantTransactions, rejectedMatches)
    IN  /\ tenantTransactions' = r.links
        /\ last' = IF r.threw THEN Answer("match", 0, 0, 0, "error", 0, FALSE)
                   ELSE Answer("match", 0, 0, 0, "ok", r.matched, FALSE)
        /\ UNCHANGED <<accounts, tenants, transactions, rejectedMatches, csvUploads>>

\* POST /api/data/match when fs.writeFileSync throws in the k-th write of
\* tenant-transactions.json.  writeFileSync opens the file with flag 'w',
\* which empties it, and then writes the text: when the open fails the file
\* is as the write before left it; when a write after the open fails the
\* file holds a proper prefix of the text, which is no JSON array, and
\* linksTruncated records that no record can be read from it.  The throw
\* reaches the catch of the handler, whose answer is the 500 of every other
\* failure; the status "writeFailed" tells the two apart here.
MatchPOSTWriteFails(k, truncates) ==
    LET r == AutoMatchWriteFailing(tenants, transactions, tenantTransactions,
                                   rejectedMatches, k - 1)
    IN  /\ r.failed
        /\ tenantTransactions' = IF truncates THEN EmptyBag ELSE r.links
        /\ linksTruncated' = truncates
        /\ last' = Answer("match", 0, 0, 0, "writeFailed", 0, FALSE)
        /\ UNCHANGED <<accounts, tenants, transactions, rejectedMatches, csvUploads,
                       userRejected, suppressed, retracted, inFlight, syncCursors,
                       truncatedFiles, bankHolds>>

\* Requests in flight.  The handlers are async functions on the one thread
\* of the server: a handler runs without interruption from one await to the
\* next.  The manual assign awaits request.json() before it touches a store,
\* so a request of it is in flight, as its pair in inFlight, from its arrival
\* to the end of that await, and from there it runs to its response.  The
\* match route has no await: it runs from its arrival to its response.
MaxInFlight == 2

TenantTransactionsPOSTArrives(tenantId, transactionId) ==
    /\ Cardinality(inFlight) < MaxInFlight
    /\ <<tenantId, transactionId>> \notin inFlight
    /\ inFlight' = inFlight \cup {<<tenantId, transactionId>>}
    /\ UNCHANGED <<accounts, tenants, transactions, tenantTransactions,
                   rejectedMatches, csvUploads, last, userRejected, suppressed,
                   linksTruncated, retracted, syncCursors, truncatedFiles, bankHolds>>

\* The rest of the manual assign pushing its link without the look of
\* addTenantTransaction for a link of the transaction.
TenantTransactionsPOSTResumesBlind(tenantId, transactionId) ==
    /\ <<tenantId, transactionId>> \in inFlight
    /\ inFlight' = inFlight \ {<<tenantId, transactionId>>}
    /\ rejectedMatches' = removeRejectedMatch(rejectedMatches, tenantId, transactionId)
    /\ tenantTransactions' =
          BagPush(tenantTransactions, Link(tenantId, transactionId, TRUE))
    /\ last' = Answer("assign", 0, tenantId, transactionId, "ok", 0, FALSE)
    /\ UNCHANGED <<accounts, tenants, transactions, csvUploads, userRejected,
                   suppressed, linksTruncated, retracted, syncCursors, truncatedFiles, bankHolds>>

\* The manual assign from the end of its await to its response.
TenantTransactionsPOSTResumes(tenantId, transactionId) ==
    /\ <<tenantId, transactionId>> \in inFlight
    /\ inFlight' = inFlight \ {<<tenantId, transactionId>>}
    /\ TenantTransactionsPOST(tenantId, transactionId)
    /\ UNCHANGED <<userRejected, suppressed, linksTruncated, retracted, syncCursors,
                   truncatedFiles, bankHolds>>

\* The bank's side of transactionsSync for the bank item: a log of pages of
\* changes, three for each bank transaction (it is added, then its amount is
\* corrected, then it is removed).  A cursor is the number of pages consumed;
\* a call with cursor c returns page c + 1 and the cursor c + 1.
BankPages == 3 * NumPlaidTx

BankPage(k) ==
    LET id == ((k - 1) \div 3) + 1
        kind == (k - 1) % 3
    IN  [added |-> IF kind = 0 THEN <<PlaidAdded(id)>> ELSE <<>>,
         modified |-> IF kind = 1 THEN <<PlaidModified(id)>> ELSE <<>>,
         removed |-> IF kind = 2 THEN <<id>> ELSE <<>>]

\* The lists the while loop of the sync route collects from the pages after
\* cursor c up to cursor u.
RECURSIVE Collected(_, _)
Collected(c, u) ==
    IF c >= u THEN [added |-> <<>>, modified |-> <<>>, removed |-> <<>>]
    ELSE LET rest == Collected(c + 1, u)
             page == BankPage(c + 1)
         IN  [added |-> page.added \o rest.added,
              modified |-> page.modified \o rest.modified,
              removed |-> page.removed \o rest.removed]

SyncFailures ==
    {"none", "fetch", "saveTransactions", "updateTransactions",
     "removeTransactions", "saveSyncCursor"}

\* The bank records the next page of changes.
BankRecords ==
    /\ bankHolds < BankPages
    /\ bankHolds' = bankHolds + 1
    /\ UNCHANGED <<accounts, tenants, transactions, tenantTransactions,
                   rejectedMatches, csvUploads, last, userRejected, suppressed,
                   linksTruncated, retracted, inFlight, syncCursors, truncatedFiles>>

\* POST /api/plaid/transactions with sync-cursors.json.  The while loop
\* fetches the pages the bank holds; failure names the call that
\* throws for the bank item, and truncates tells whether a failing write
\* leaves its file cut short (see MatchPOSTWriteFails).  An account of a CSV
\* upload has no access token: its fetch throws, its catch block logs, and
\* the loop goes on; so the loop's effect is its pass for the bank item.
PlaidSyncPOST(failure, truncates) ==
    LET cursor == getSyncCursor(syncCursors, PlaidItem)
        upTo == bankHolds
        got == Collected(cursor, upTo)
        afterAdd == IF Len(got.added) > 0
                    THEN saveTransactions(transactions, got.added) ELSE transactions
        afterMod == IF Len(got.modified) > 0
                    THEN updateTransactions(afterAdd, got.modified) ELSE afterAdd
        afterRem == IF Len(got.removed) > 0
                    THEN removeTransactions(afterMod, got.removed) ELSE afterMod
        written == CASE failure = "fetch" -> transactions
                     [] failure = "saveTransactions" -> transactions
                     [] failure = "updateTransactions" -> afterAdd
                     [] failure = "removeTransactions" -> afterMod
                     [] OTHER -> afterRem
        cutFile == CASE ~truncates -> {}
                     [] failure = "saveSyncCursor" -> {"sync-cursors.json"}
                     [] OTHER -> {"transactions.json"}
    IN  /\ \E i \in 1..Len(accounts) :
              accounts[i].itemId = PlaidItem /\ accounts[i].accessToken # ""
        /\ upTo >= cursor
        /\ failure = "saveTransactions" => Len(got.added) > 0
        /\ failure = "updateTransactions" => Len(got.modified) > 0
        /\ failure = "removeTransactions" => Len(got.removed) > 0
        /\ truncates => failure \notin {"none", "fetch"}
        /\ Len(written) <= MaxTransactions
        /\ transactions' = IF "transactions.json" \in cutFile THEN <<>> ELSE written
        /\ syncCursors' =
              CASE failure = "none" ->
                      saveSyncCursor(syncCursors, [itemId |-> PlaidItem, cursor |-> upTo])
                [] "sync-cursors.json" \in cutFile -> <<>>
                [] OTHER -> syncCursors
        /\ truncatedFiles' = truncatedFiles \cup cutFile
        /\ last' = Answer("sync", 0, 0, 0, "ok",
                          IF failure \in {"fetch", "saveTransactions"}
                          THEN 0 ELSE Len(got.added), FALSE)
        /\ UNCHANGED <<accounts, tenants, tenantTransactions, rejectedMatches,
                       csvUploads, userRejected, suppressed, linksTruncated,
                       retracted, inFlight, bankHolds>>

----------------------------------------------------------------------------
(* Specifications *)

FirstCsvTx == NumPlaidTx + 1

\* Files of one row each.
OneRowFiles == {<<a>> : a \in CsvTxIds}

\* The history variables are followed only under SpecTracked.
Untracked ==
    UNCHANGED <<userRejected, suppressed, linksTruncated, retracted, inFlight,
                syncCursors, truncatedFiles, bankHolds>>

\* The matching handlers, with CSV upload as the source of transactions.
Next ==
    \/ \E rows \in OneRowFiles : CsvUploadPOST(rows) /\ Untracked
    \/ \E id \in TenantIds \cup {0}, cfg \in Configs :
          TenantsPOST(id, cfg) /\ Untracked
    \/ \E id \in TenantIds : TenantsDELETE(id) /\ Untracked
    \/ \E tenantId \in TenantIds, transactionId \in CsvTxIds :
          TenantTransactionsPOST(tenantId, transactionId) /\ Untracked
    \/ \E transactionId \in CsvTxIds :
          TenantTransactionsDELETE(transactionId) /\ Untracked
    \/ MatchPOST /\ Untracked

Spec == Init /\ [][Next]_vars

\* The transactions linked while the ingestion and deletion routes are explored.
StoreTxIds == PlaidTxIds \cup {FirstCsvTx}

\* The files uploaded there: one row each, or the first row twice.
StoreFiles == OneRowFiles \cup {<<FirstCsvTx, FirstCsvTx>>}

\* Every handler, with one tenant.
StoreNext ==
    \/ ExchangeTokenPOST /\ Untracked
    \/ \E rows \in StoreFiles : CsvUploadPOST(rows) /\ Untracked
    \/ \E uploadId \in UploadIds : CsvUploadsDELETE(uploadId) /\ Untracked
    \/ \E id \in Items : AccountsDELETE(id) /\ Untracked
    \/ \E response \in BankResponses : PlaidTransactionsPOST(response) /\ Untracked
    \/ \E cfg \in {CfgSmith, CfgExact} : TenantsPOST(1, cfg) /\ Untracked
    \/ TenantsDELETE(1) /\ Untracked
    \/ \E transactionId \in StoreTxIds :
          TenantTransactionsPOST(1, transactionId) /\ Untracked
    \/ \E transactionId \in StoreTxIds :
          TenantTransactionsDELETE(transactionId) /\ Untracked
    \/ MatchPOST /\ Untracked

SpecStore == Init /\ [][StoreNext]_vars

\* The history of rejections and retractions kept beside the handlers.
\* retracted holds the pairs (T, tx) of the links that the re-evaluation of
\* an edit of T removed.  userRejected holds
\* the pairs (T, tx) for which unassign(tx) was issued while tx was linked to
\* T and no assign(T, tx) has been issued since; suppressed holds those of
\* them for which, since then, T was not deleted and tx was not deleted with
\* its account or CSV upload.
Unassigned(transactionId) ==
    LET assignment ==
            getTenantTransactionByTransactionId(tenantTransactions, transactionId)
    IN  IF assignment = <<>> THEN {}
        ELSE {<<assignment[1].tenantId, transactionId>>}

DeletedTransactions ==
    TransactionIdsOf(transactions) \ TransactionIdsOf(transactions')

\* The pairs (T, tx) of the links a step removes.
RemovedPairs ==
    {<<tt.tenantId, tt.transactionId>> :
        tt \in BagToSet(tenantTransactions (-) tenantTransactions')}

TrackedNext ==
    \/ /\ CsvUploadPOST(<<FirstCsvTx>>)
       /\ UNCHANGED <<userRejected, suppressed, linksTruncated, retracted, inFlight, syncCursors,
                      truncatedFiles, bankHolds>>
    \/ /\ \E uploadId \in UploadIds : CsvUploadsDELETE(uploadId)
       /\ suppressed' = {p \in suppressed : p[2] \notin DeletedTransactions}
       /\ UNCHANGED <<userRejected, linksTruncated, retracted, inFlight, syncCursors,
                      truncatedFiles, bankHolds>>
    \/ /\ AccountsDELETE(CsvItem)
       /\ suppressed' = {p \in suppressed : p[2] \notin DeletedTransactions}
       /\ UNCHANGED <<userRejected, linksTruncated, retracted, inFlight, syncCursors,
                      truncatedFiles, bankHolds>>
    \/ /\ \E id \in TenantIds, cfg \in {CfgSmith, CfgExact} : TenantsPOST(id, cfg)
       /\ retracted' = retracted \cup RemovedPairs
       /\ UNCHANGED <<userRejected, suppressed, linksTruncated, inFlight, syncCursors,
                      truncatedFiles, bankHolds>>
    \/ \E id \in TenantIds :
          /\ TenantsDELETE(id)
          /\ suppressed' = {p \in suppressed : p[1] # id}
          /\ UNCHANGED <<userRejected, linksTruncated, retracted, inFlight, syncCursors,
                      truncatedFiles, bankHolds>>
    \/ \E tenantId \in TenantIds :
          /\ TenantTransactionsPOST(tenantId, FirstCsvTx)
          /\ userRejected' = userRejected \ {<<tenantId, FirstCsvTx>>}
          /\ suppressed' = suppressed \ {<<tenantId, FirstCsvTx>>}
          /\ UNCHANGED <<linksTruncated, retracted, inFlight, syncCursors,
                      truncatedFiles, bankHolds>>
    \/ /\ TenantTransactionsDELETE(FirstCsvTx)
       /\ userRejected' = userRejected \cup Unassigned(FirstCsvTx)
       /\ suppressed' = suppressed \cup Unassigned(FirstCsvTx)
       /\ UNCHANGED <<linksTruncated, retracted, inFlight, syncCursors,
                      truncatedFiles, bankHolds>>
    \/ /\ MatchPOST
       /\ UNCHANGED <<userRejected, suppressed, linksTruncated, retracted, inFlight, syncCursors,
                      truncatedFiles, bankHolds>>

SpecTracked == Init /\ [][TrackedNext]_vars

\* The rule check on its own: one stored tenant and one stored transaction
\* of a CSV upload, drawn from the rule inputs; then auto-match and edits of
\* the tenant, which run the rule check of the match route and of
\* reEvaluateTenantMatches.  Amounts at a distance of exactly 0.01 from an
\* exact amount are left out: there the floating-point difference decides.
RuleAmounts ==
    {-1450000, -1550000, -1449990, -1550010, -1500000, 1500000,
     -875004, -875020, -875000, -874996}

RuleTexts ==
    {[name |-> sSMITH], [name |-> sRent], [name |-> sRent, merchantName |-> sSmith]}

RuleDeposit(amount, text) ==
    [f \in {"transactionId", "accountId", "itemId", "amount"} \cup DOMAIN text |->
        CASE f = "transactionId" -> FirstCsvTx
          [] f = "accountId" -> AccountOf(CsvItem)
          [] f = "itemId" -> CsvItem
          [] f = "amount" -> amount
          [] OTHER -> text[f]]

RuleInit ==
    /\ accounts = <<CsvAccount>>
    /\ \E cfg \in RuleConfigs : tenants = <<WithId(cfg, 1)>>
    /\ \E amount \in RuleAmounts, text \in RuleTexts :
          transactions = <<RuleDeposit(amount, text)>>
    /\ tenantTransactions = EmptyBag
    /\ rejectedMatches = EmptyBag
    /\ csvUploads = <<[id |-> 1, accountId |-> CsvItem,
                       transactionIds |-> <<FirstCsvTx>>]>>
    /\ last = Answer("none", 0, 0, 0, "ok", 0, FALSE)
    /\ userRejected = {}
    /\ suppressed = {}
    /\ linksTruncated = FALSE
    /\ retracted = {}
    /\ inFlight = {}
    /\ syncCursors = <<>>
    /\ truncatedFiles = {}
    /\ bankHolds = 0

RuleNext ==
    \/ MatchPOST /\ Untracked
    \/ \E cfg \in RuleConfigs : TenantsPOST(1, cfg) /\ Untracked

SpecRule == RuleInit /\ [][RuleNext]_vars

\* The matching handlers with well-formed tenants, and auto-match runs in
\* which a write of tenant-transactions.json fails; followed up to the first
\* truncation of the file.
WriteNext ==
    \/ /\ ~linksTruncated
       /\ \E rows \in OneRowFiles : CsvUploadPOST(rows) /\ Untracked
    \/ /\ ~linksTruncated
       /\ \E id \in TenantIds, cfg \in {CfgSmith, CfgExact} :
             TenantsPOST(id, cfg) /\ Untracked
    \/ /\ ~linksTruncated
       /\ \E tenantId \in TenantIds, transactionId \in CsvTxIds :
             TenantTransactionsPOST(tenantId, transactionId) /\ Untracked
    \/ /\ ~linksTruncated
       /\ \E transactionId \in CsvTxIds :
             TenantTransactionsDELETE(transactionId) /\ Untracked
    \/ /\ ~linksTruncated
       /\ MatchPOST /\ Untracked
    \/ /\ ~linksTruncated
       /\ \E k \in 1..NumCsvTx, truncates \in BOOLEAN :
             MatchPOSTWriteFails(k, truncates)

SpecWrite == Init /\ [][WriteNext]_vars

\* The handlers that write tenants.json and transactions.json, with two
\* tenants, bank syncs and CSV uploads.
OrderNext ==
    \/ ExchangeTokenPOST /\ Untracked
    \/ \E rows \in StoreFiles : CsvUploadPOST(rows) /\ Untracked
    \/ \E uploadId \in UploadIds : CsvUploadsDELETE(uploadId) /\ Untracked
    \/ \E id \in Items : AccountsDELETE(id) /\ Untracked
    \/ \E response \in BankResponses : PlaidTransactionsPOST(response) /\ Untracked
    \/ \E id \in TenantIds \cup {0}, cfg \in {CfgSmith, CfgExact} :
          TenantsPOST(id, cfg) /\ Untracked
    \/ \E id \in TenantIds : TenantsDELETE(id) /\ Untracked
    \/ MatchPOST /\ Untracked

SpecOrder == Init /\ [][OrderNext]_vars

\* Auto-match runs and manual assigns of the first CSV transaction in flight
\* together, with well-formed tenants.
ConcurrentNext ==
    \/ \E rows \in OneRowFiles : CsvUploadPOST(rows) /\ Untracked
    \/ \E id \in TenantIds, cfg \in {CfgSmith, CfgExact} :
          TenantsPOST(id, cfg) /\ Untracked
    \/ \E tenantId \in TenantIds :
          TenantTransactionsPOSTArrives(tenantId, FirstCsvTx)
    \/ \E tenantId \in TenantIds :
          TenantTransactionsPOSTResumes(tenantId, FirstCsvTx)
    \/ \E transactionId \in CsvTxIds :
          TenantTransactionsDELETE(transactionId) /\ Untracked
    \/ MatchPOST /\ Untracked

SpecConcurrent == Init /\ [][ConcurrentNext]_vars

\* Bank syncs with cursors, failing fetches and failing writes, beside CSV
\* uploads; followed up to the first truncation of a file.
SyncNext ==
    \/ /\ truncatedFiles = {}
       /\ ExchangeTokenPOST /\ Untracked
    \/ /\ truncatedFiles = {}
       /\ \E rows \in OneRowFiles : CsvUploadPOST(rows) /\ Untracked
    \/ /\ truncatedFiles = {}
       /\ \E failure \in SyncFailures, truncates \in BOOLEAN :
             PlaidSyncPOST(failure, truncates)
    \/ /\ truncatedFiles = {}
       /\ BankRecords

SpecSync == Init /\ [][SyncNext]_vars

----------------------------------------------------------------------------
(* Properties *)

\* The number of links of a transaction, and whether a tenant is linked to it.
LinkCount(links, transactionId) ==
    LET Same(tt) == tt.transactionId = transactionId
    IN  BagCardinality(BagFilter(links, Same))

HasLink(links, tenantId, transactionId) ==
    \E tt \in BagToSet(links) :
        tt.tenantId = tenantId /\ tt.transactionId = transactionId

\* The stored tenant of an id and the stored transaction of an id, each as a
\* sequence of length <= 1.
StoredTenant(tenantList, id) ==
    LET IsIt(t) == t.id = id
        found == Filter(tenantList, IsIt)
    IN  IF found = <<>> THEN <<>> ELSE <<Head(found)>>

\* A transaction satisfies a tenant's rule when the rule check says "match";
\* a rule with a missing field is satisfied by nothing.
Satisfies(tenant, transaction) == StillMatches(tenant, transaction) = "match"

\* C1 (exclusivity): in every reachable state each transaction id is the
\* transactionId of at most one link of tenant-transactions.json, whatever
\* interleaving of saveTenant, deleteTenant, assign, unassign and auto-match
\* led there.
C1_Exclusive ==
    \A transactionId \in TxIds : LinkCount(tenantTransactions, transactionId) <= 1

\* C1 witness: a manual assign has been answered for a transaction that is
\* linked to another tenant.
C1_Witness ==
    /\ last.op = "assign"
    /\ \E tt \in BagToSet(tenantTransactions) :
          tt.transactionId = last.x /\ tt.tenantId # last.t

\* C2 as written: after an unassign of tx from T, no auto-match creates a
\* link (T, tx) until a manual assign(T, tx) is issued.
C2_Original ==
    [][last'.op = "match" =>
          \A p \in userRejected :
              HasLink(tenantTransactions', p[1], p[2])
                  => HasLink(tenantTransactions, p[1], p[2])]_vars

\* C2 (rejection suppression), amended: after an unassign of tx from T, no
\* auto-match creates a link (T, tx) for as long as no manual assign(T, tx)
\* has been issued, T has not been deleted and tx has not been deleted with
\* its account or CSV upload; edits of T's rule and new transactions do not
\* end the suppression.
C2_Suppressed ==
    [][last'.op = "match" =>
          \A p \in suppressed :
              HasLink(tenantTransactions', p[1], p[2])
                  => HasLink(tenantTransactions, p[1], p[2])]_vars

\* C2 witness: auto-match has run while a suppressed pair (T, tx) had T
\* stored, tx stored as a deposit without link, and tx matching T's rule.
C2_Witness ==
    /\ last.op = "match"
    /\ last.status = "ok"
    /\ \E p \in suppressed :
          LET tenant == StoredTenant(tenants, p[1])
              found == FindTransaction(transactions, p[2])
          IN  /\ tenant # <<>>
              /\ found # <<>>
              /\ LinkCount(tenantTransactions, p[2]) = 0
              /\ IsMatch(tenant[1], found[1]) = "match"

\* C3 (idempotence of auto-match) as written: whenever runAutoMatch has just
\* returned, calling it again on the same stores returns matched = 0 and
\* leaves tenant-transactions.json as the first call left it.
C3_Idempotent ==
    last.op = "match" =>
        LET r == AutoMatch(tenants, transactions, tenantTransactions, rejectedMatches)
        IN  ~r.threw /\ r.matched = 0 /\ r.links = tenantTransactions

\* C4 (manual assign postcondition) as written: when assign(T, tx) has
\* completed, tx has exactly one link, to T and with manualOverride true,
\* whatever link tx had before.
C4_AssignPost ==
    last.op = "assign" =>
        /\ LinkCount(tenantTransactions, last.x) = 1
        /\ \A tt \in BagToSet(tenantTransactions) :
              tt.transactionId = last.x
                  => tt.tenantId = last.t /\ tt.manualOverride

\* What re-evaluation of a tenant is to leave of the links: all but the
\* automatic links of the tenant whose transaction is gone or does not
\* satisfy the tenant's rule.
ExpectedAfterReevaluation(links, allTransactions, tenant) ==
    LET Stays(tt) ==
            LET found == FindTransaction(allTransactions, tt.transactionId)
            IN  ~(/\ tt.tenantId = tenant.id
                  /\ ~tt.manualOverride
                  /\ (found = <<>> \/ ~Satisfies(tenant, found[1])))
    IN  BagFilter(links, Stays)

\* C5 (re-evaluation correctness) as written: the re-evaluation run by an
\* edit of T removes exactly the automatic links of T whose transaction is
\* gone or does not satisfy T's new rule, keeps T's other automatic links,
\* and returns the number of links it removed.
C5_Reevaluation ==
    [][(last'.op = "saveTenant" /\ StoredTenant(tenants, last'.t) # <<>>) =>
          LET tenant == StoredTenant(tenants', last'.t)[1]
              expected ==
                  ExpectedAfterReevaluation(tenantTransactions, transactions, tenant)
          IN  /\ last'.status = "ok"
              /\ tenantTransactions' = expected
              /\ last'.n = BagCardinality(tenantTransactions)
                              - BagCardinality(expected)]_vars

\* C6 (re-evaluation frame): a saveTenant of T, with the re-evaluation an
\* edit runs, neither removes nor adds a link with manualOverride
\* true or a link of another tenant, leaves transactions.json and
\* rejected-matches.json as they were, and leaves tenants.json as saveTenant
\* wrote it.
C6_Frame ==
    [][last'.op = "saveTenant" =>
          /\ transactions' = transactions
          /\ rejectedMatches' = rejectedMatches
          /\ \E cfg \in Configs : tenants' = saveTenant(tenants, WithId(cfg, last'.t))
          /\ \A tt \in BagToSet(tenantTransactions) \cup BagToSet(tenantTransactions') :
                (tt.manualOverride \/ tt.tenantId # last'.t)
                    => CopiesIn(tt, tenantTransactions')
                          = CopiesIn(tt, tenantTransactions)]_vars

\* C6 witness: an edit of T has removed links while a manual link of T whose
\* transaction is gone or does not satisfy T's stored rule is still there.
C6_Witness ==
    /\ last.op = "saveTenant"
    /\ last.isEdit
    /\ last.n > 0
    /\ \E tt \in BagToSet(tenantTransactions) :
          LET found == FindTransaction(transactions, tt.transactionId)
          IN  /\ tt.tenantId = last.t
              /\ tt.manualOverride
              /\ \/ found = <<>>
                 \/ ~Satisfies(StoredTenant(tenants, last.t)[1], found[1])

\* C7 (saveTenant runs re-evaluation exactly on edit) as written: when a
\* saveTenant that replaced a stored tenant T returns, no automatic link of
\* T references a stored transaction that fails T's stored rule, and
\* removedCount is the number of links removed; when it created the tenant,
\* no link is removed and removedCount is 0.
C7_OnEdit ==
    [][last'.op = "saveTenant" =>
          IF StoredTenant(tenants, last'.t) # <<>>
          THEN /\ \A tt \in BagToSet(tenantTransactions') :
                     LET found == FindTransaction(transactions', tt.transactionId)
                     IN  (tt.tenantId = last'.t /\ ~tt.manualOverride /\ found # <<>>)
                            => Satisfies(StoredTenant(tenants', last'.t)[1], found[1])
               /\ last'.n = BagCardinality(tenantTransactions)
                               - BagCardinality(tenantTransactions')
          ELSE /\ tenantTransactions' = tenantTransactions
               /\ last'.n = 0]_vars

HasRejection(rejected, tenantId, transactionId) ==
    \E rm \in BagToSet(rejected) :
        rm.tenantId = tenantId /\ rm.transactionId = transactionId

\* C8 (unassign): an unassign of tx leaves tx without link and, for the
\* link to T it found, automatic or manual, a rejection (T, tx) in
\* rejected-matches.json; the links of other transactions and the other
\* rejections stay; when tx had no link, both files stay as they were.
C8_Unassign ==
    [][last'.op = "unassign" =>
          LET before == {tt \in BagToSet(tenantTransactions) :
                            tt.transactionId = last'.x}
          IN  /\ LinkCount(tenantTransactions', last'.x) = 0
              /\ \A tt \in before :
                    HasRejection(rejectedMatches', tt.tenantId, last'.x)
              /\ \A tt \in BagToSet(tenantTransactions) \cup BagToSet(tenantTransactions') :
                    tt.transactionId # last'.x
                        => CopiesIn(tt, tenantTransactions')
                              = CopiesIn(tt, tenantTransactions)
              /\ \A rm \in BagToSet(rejectedMatches) :
                    CopiesIn(rm, rejectedMatches') = CopiesIn(rm, rejectedMatches)
              /\ before = {} => /\ tenantTransactions' = tenantTransactions
                                /\ rejectedMatches' = rejectedMatches]_vars

\* C8 witness: an unassign has found a link of the transaction, the
\* transaction has no link and the rejection of the pair is stored.
C8_Witness ==
    /\ last.op = "unassign"
    /\ last.t # 0
    /\ LinkCount(tenantTransactions, last.x) = 0
    /\ HasRejection(rejectedMatches, last.t, last.x)

\* C9 (referential integrity) as written: in every reachable state every
\* link's tenantId is the id of a stored tenant and its transactionId the id
\* of a stored transaction.
C9_Referential ==
    \A tt \in BagToSet(tenantTransactions) :
        /\ StoredTenant(tenants, tt.tenantId) # <<>>
        /\ FindTransaction(transactions, tt.transactionId) # <<>>

\* The ids of the transactions an account or a CSV upload owns.
OwnedBy(op, id) ==
    IF op = "deleteAccount"
    THEN {transactions[i].transactionId :
             i \in {k \in 1..Len(transactions) : transactions[k].itemId = id}}
    ELSE UNION {Range(csvUploads[i].transactionIds) :
                   i \in {k \in 1..Len(csvUploads) : csvUploads[k].id = id}}

\* C10 (transaction-deletion cascade): the deletion of an account or of a
\* CSV upload removes every transaction it owns and, with it, every link
\* and every rejection whose transactionId is a removed id; the other
\* transactions, links and rejections stay.
C10_Cascade ==
    [][(last'.op \in {"deleteAccount", "deleteCsvUpload"} /\ last'.status = "ok") =>
          LET owned == OwnedBy(last'.op, last'.id)
              Stays(t) == t.transactionId \notin owned
          IN  /\ transactions' = Filter(transactions, Stays)
              /\ \A tt \in BagToSet(tenantTransactions') : tt.transactionId \notin owned
              /\ \A rm \in BagToSet(rejectedMatches') : rm.transactionId \notin owned
              /\ \A tt \in BagToSet(tenantTransactions) :
                    tt.transactionId \notin owned
                        => CopiesIn(tt, tenantTransactions')
                              = CopiesIn(tt, tenantTransactions)
              /\ \A rm \in BagToSet(rejectedMatches) :
                    rm.transactionId \notin owned
                        => CopiesIn(rm, rejectedMatches')
                              = CopiesIn(rm, rejectedMatches)]_vars

\* C10 witness: a deletion has removed transactions while a stored
\* transaction of another owner keeps its link or its rejection.
C10_Witness ==
    /\ last.op \in {"deleteAccount", "deleteCsvUpload"}
    /\ last.status = "ok"
    /\ last.n > 0
    /\ \E i \in 1..Len(transactions) :
          \/ LinkCount(tenantTransactions, transactions[i].transactionId) = 1
          \/ \E rm \in BagToSet(rejectedMatches) :
                rm.transactionId = transactions[i].transactionId

\* C11 (tenant-deletion cascade): after deleteTenant(T) tenants.json has no
\* tenant T, no link and no rejection has tenantId T, and the tenants, links
\* and rejections of every other tenant are as they were.
C11_TenantCascade ==
    [][last'.op = "deleteTenant" =>
          LET Others(t) == t.id # last'.t
          IN  /\ tenants' = Filter(tenants, Others)
              /\ StoredTenant(tenants', last'.t) = <<>>
              /\ \A tt \in BagToSet(tenantTransactions') : tt.tenantId # last'.t
              /\ \A rm \in BagToSet(rejectedMatches') : rm.tenantId # last'.t
              /\ \A tt \in BagToSet(tenantTransactions) :
                    tt.tenantId # last'.t
                        => CopiesIn(tt, tenantTransactions')
                              = CopiesIn(tt, tenantTransactions)
              /\ \A rm \in BagToSet(rejectedMatches) :
                    rm.tenantId # last'.t
                        => CopiesIn(rm, rejectedMatches')
                              = CopiesIn(rm, rejectedMatches)]_vars

\* C11 witness: a tenant has been deleted while another tenant is stored with
\* a link and with a rejection of its own.
C11_Witness ==
    /\ last.op = "deleteTenant"
    /\ \E other \in TenantIds \ {last.t} :
          /\ StoredTenant(tenants, other) # <<>>
          /\ \E tt \in BagToSet(tenantTransactions) : tt.tenantId = other
          /\ \E rm \in BagToSet(rejectedMatches) : rm.tenantId = other

\* What auto-match is to leave of the links, from transaction i on: every
\* transaction with amount < 0 and without link gets an automatic link to the
\* earliest stored tenant whose pair with it is not rejected and whose rule
\* it satisfies; a rule with a missing field is satisfied by nothing.
RECURSIVE ExpectedMatches(_, _, _, _, _)
ExpectedMatches(allTransactions, i, tenantList, rejected, links) ==
    IF i > Len(allTransactions) THEN links
    ELSE
      LET tx == allTransactions[i]
          eligible == {j \in 1..Len(tenantList) :
                          /\ ~HasRejection(rejected, tenantList[j].id, tx.transactionId)
                          /\ IsMatch(tenantList[j], tx) = "match"}
          first == CHOOSE j \in eligible : \A k \in eligible : j <= k
      IN  IF tx.amount < 0 /\ LinkCount(links, tx.transactionId) = 0 /\ eligible # {}
          THEN ExpectedMatches(allTransactions, i + 1, tenantList, rejected,
                               BagPush(links, Link(tenantList[first].id,
                                                   tx.transactionId, FALSE)))
          ELSE ExpectedMatches(allTransactions, i + 1, tenantList, rejected, links)

\* C12 (first-match-wins) as written: auto-match gives every transaction with
\* amount < 0 and without link an automatic link to the earliest tenant in
\* stored order whose pair with it is not rejected and whose rule it
\* satisfies, and creates no other link.
C12_FirstMatch ==
    [][last'.op = "match" =>
          tenantTransactions' =
              ExpectedMatches(transactions, 1, tenants, rejectedMatches,
                              tenantTransactions)]_vars

\* C13 (auto-match is purely additive): every link present before an
\* auto-match is present, with the same tenantId, transactionId and
\* manualOverride, after it, and the auto-match changes nothing in
\* tenants.json, transactions.json and rejected-matches.json.
C13_Additive ==
    [][last'.op = "match" =>
          /\ \A tt \in BagToSet(tenantTransactions) :
                CopiesIn(tt, tenantTransactions') >= CopiesIn(tt, tenantTransactions)
          /\ tenants' = tenants
          /\ transactions' = transactions
          /\ rejectedMatches' = rejectedMatches]_vars

\* C13 witness: an auto-match has created links while a manual link and
\* more links than it created are stored.
C13_Witness ==
    /\ last.op = "match"
    /\ last.status = "ok"
    /\ last.n > 0
    /\ BagCardinality(tenantTransactions) > last.n
    /\ \E tt \in BagToSet(tenantTransactions) : tt.manualOverride

\* C14 (matched count): the count a successful auto-match returns is the
\* number of links that are stored after the run and were not stored before
\* it; a match whose link addTenantTransaction did not write is not counted.
C14_MatchedCount ==
    [][(last'.op = "match" /\ last'.status = "ok") =>
          last'.n = BagCardinality(tenantTransactions' (-) tenantTransactions)]_vars

\* C14 witness: a successful auto-match has counted a link of a transaction
\* id that transactions.json holds twice.
C14_Witness ==
    /\ last.op = "match"
    /\ last.status = "ok"
    /\ last.n > 0
    /\ \E i \in 1..Len(transactions), k \in 1..Len(transactions) :
          /\ i < k
          /\ transactions[i].transactionId = transactions[k].transactionId
          /\ \E tt \in BagToSet(tenantTransactions) :
                tt.transactionId = transactions[i].transactionId /\ ~tt.manualOverride

\* What the rule of a tenant says of a transaction, in the words of the
\* three readings checked below.  "nonEmpty": search-terms mode, a term
\* counts when it is not the empty string.  "notBlank": search-terms mode, a
\* term counts when it has a character that is not white space.  "exact":
\* exact-amounts mode.
RuleSays(reading, tenant, tx) ==
    LET text == ToUpper(tx.name \o <<32>> \o
                        (IF Has(tx, "merchantName") THEN tx.merchantName ELSE <<>>))
        inInterval == /\ Abs(tx.amount) >= tenant.expectedRent - tenant.tolerance
                      /\ Abs(tx.amount) <= tenant.expectedRent + tenant.tolerance
        Counts(term) == IF reading = "nonEmpty" THEN term # <<>>
                        ELSE \E i \in 1..Len(term) : ~IsSpace(term[i])
    IN  IF reading = "exact"
        THEN \E i \in 1..Len(tenant.exactAmounts) :
                Abs(Abs(tx.amount) - tenant.exactAmounts[i]) < Epsilon
        ELSE /\ inInterval
             /\ \E i \in 1..Len(tenant.searchTerms) :
                   /\ Counts(tenant.searchTerms[i])
                   /\ Includes(text, ToUpper(tenant.searchTerms[i]))

\* The rule check decides as a reading says, for the one tenant and the one
\* transaction of the rule-check specification: an auto-match links the
\* transaction exactly when it was linked or is a deposit the rule accepts,
\* and an edit of the tenant keeps the link exactly when the new rule accepts
\* the transaction.
EvaluatorDecidesAs(reading, mode) ==
    LET tx == transactions[1]
        linked == HasLink(tenantTransactions, 1, tx.transactionId)
        linkedAfter == HasLink(tenantTransactions', 1, tx.transactionId)
    IN  /\ (last'.op = "match" /\ tenants[1].matchMode = mode)
              => (linkedAfter <=> (linked \/ (tx.amount < 0 /\ RuleSays(reading, tenants[1], tx))))
        /\ (last'.op = "saveTenant" /\ tenants'[1].matchMode = mode)
              => (linkedAfter <=> (linked /\ RuleSays(reading, tenants'[1], tx)))

\* The examples of C15: rent 1500, tolerance 50, term Smith; and terms that
\* are all empty.
SearchTermsExamples ==
    LET tenant == WithId(Rule("searchTerms", 1500000, 50000, <<sSmith>>, <<>>), 1)
        noTerm == WithId(Rule("searchTerms", 1500000, 50000, <<sEmpty, sEmpty>>, <<>>), 1)
        D(amount) == RuleDeposit(amount, [name |-> sSMITH])
    IN  /\ IsMatch(tenant, D(-1450000)) = "match"
        /\ IsMatch(tenant, D(-1550000)) = "match"
        /\ IsMatch(tenant, D(-1449990)) = "nomatch"
        /\ IsMatch(tenant, D(-1550010)) = "nomatch"
        /\ IsMatch(noTerm, D(-1500000)) = "nomatch"
        /\ StillMatches(tenant, D(-1450000)) = "match"
        /\ StillMatches(tenant, D(-1550000)) = "match"
        /\ StillMatches(tenant, D(-1449990)) = "nomatch"
        /\ StillMatches(tenant, D(-1550010)) = "nomatch"
        /\ StillMatches(noTerm, D(-1500000)) = "nomatch"

\* C15 as written: in search-terms mode the rule check accepts exactly when
\* abs(amount) is in [expectedRent - tolerance, expectedRent + tolerance] and
\* a non-empty term is, ignoring case, a substring of the upper-cased
\* description and merchant text.
C15_Original ==
    [][EvaluatorDecidesAs("nonEmpty", "searchTerms") /\ SearchTermsExamples]_vars

\* C15 (search-terms mode), amended: the rule check accepts exactly when
\* abs(amount) is in the closed interval [expectedRent - tolerance,
\* expectedRent + tolerance] and a term that is not empty after trimming
\* white space is, ignoring case, a substring of the upper-cased description
\* and merchant text; for rent 1500 and tolerance 50 the amounts 1450 and
\* 1550 are accepted and 1449.99 and 1550.01 are not, and terms that are all
\* empty or blank accept nothing.
C15_SearchTerms ==
    [][EvaluatorDecidesAs("notBlank", "searchTerms") /\ SearchTermsExamples]_vars

\* C15 witness: an auto-match has linked a deposit whose amount is the lower
\* bound of the interval of a search-terms tenant.
C15_Witness ==
    /\ last.op = "match"
    /\ Len(tenants) = 1 /\ Len(transactions) = 1
    /\ tenants[1].matchMode = "searchTerms"
    /\ Abs(transactions[1].amount) = tenants[1].expectedRent - tenants[1].tolerance
    /\ HasLink(tenantTransactions, 1, transactions[1].transactionId)

\* The examples of C16: exact amount 875.00 with the other fields set, and
\* with the other fields missing.
ExactAmountsExamples ==
    \A tenant \in {WithId(Rule("exactAmounts", 1500000, 50000, <<sSmith>>, <<875000>>), 1),
                   [matchMode |-> "exactAmounts", exactAmounts |-> <<875000>>,
                    accountId |-> "acct-plaid", id |-> 1]} :
        \A text \in RuleTexts :
            /\ IsMatch(tenant, RuleDeposit(-875004, text)) = "match"
            /\ IsMatch(tenant, RuleDeposit(-875020, text)) = "nomatch"
            /\ StillMatches(tenant, RuleDeposit(-875004, text)) = "match"
            /\ StillMatches(tenant, RuleDeposit(-875020, text)) = "nomatch"

\* C16 (exact-amounts mode): the rule check accepts exactly when
\* abs(abs(amount) - a) < 0.01 for a configured exact amount a, whatever
\* expectedRent, tolerance and the search terms are, and whether they are
\* there; for the exact amount 875.00 a deposit of 875.004 is accepted and
\* one of 875.02 is not.
C16_ExactAmounts ==
    [][EvaluatorDecidesAs("exact", "exactAmounts") /\ ExactAmountsExamples]_vars

\* C16 witness: an edit to an exact-amounts rule without expectedRent,
\* tolerance and searchTerms has kept the link of a deposit of 875.004.
C16_Witness ==
    /\ last.op = "saveTenant"
    /\ last.isEdit
    /\ Len(tenants) = 1 /\ Len(transactions) = 1
    /\ tenants[1].matchMode = "exactAmounts"
    /\ ~Has(tenants[1], "expectedRent")
    /\ transactions[1].amount = -875004
    /\ HasLink(tenantTransactions, 1, transactions[1].transactionId)

\* A tenant has the fields its mode reads.
HasRuleFields(tenant) ==
    IF Has(tenant, "matchMode") /\ tenant.matchMode = "exactAmounts"
    THEN Has(tenant, "exactAmounts")
    ELSE Has(tenant, "expectedRent") /\ Has(tenant, "tolerance")
            /\ Has(tenant, "searchTerms")

\* C17 (malformed tenant) as written: a tenant whose rule lacks a field of
\* its mode matches nothing and aborts nothing: an auto-match succeeds and
\* leaves the links it leaves when the tenants lacking a field are absent,
\* and an edit of T to a rule lacking a field succeeds and leaves no
\* automatic link of T to a stored transaction.
C17_Malformed ==
    [][/\ last'.op = "match" =>
             /\ last'.status = "ok"
             /\ tenantTransactions' =
                   AutoMatch(Filter(tenants, HasRuleFields), transactions,
                             tenantTransactions, rejectedMatches).links
       /\ (/\ last'.op = "saveTenant"
           /\ StoredTenant(tenants, last'.t) # <<>>
           /\ ~HasRuleFields(StoredTenant(tenants', last'.t)[1])) =>
             /\ last'.status = "ok"
             /\ \A tt \in BagToSet(tenantTransactions') :
                   (tt.tenantId = last'.t /\ ~tt.manualOverride)
                       => FindTransaction(transactions', tt.transactionId) = <<>>]_vars


\* Whether every record of the bag is a whole automatic link of a stored
\* tenant's id and a stored transaction's id.
CompleteAutoLinks(links) ==
    \A tt \in BagToSet(links) :
        /\ DOMAIN tt = {"id", "tenantId", "transactionId", "manualOverride"}
        /\ tt.id = <<tt.tenantId, tt.transactionId>>
        /\ StoredTenant(tenants, tt.tenantId) # <<>>
        /\ FindTransaction(transactions, tt.transactionId) # <<>>
        /\ ~tt.manualOverride

\* The links in the store, in the state before the run, once the calls of
\* addTenantTransaction before the k-th one have returned.
WrittenBefore(k) ==
    AutoMatchWriteFailing(tenants, transactions, tenantTransactions,
                          rejectedMatches, k - 1).links

\* What C18 says of a step: the answer is an error without a matched count,
\* every link stored or written before the failing k-th write can be read
\* from the store afterwards, those the run wrote are whole automatic links,
\* and the run went no further: the store holds fewer links than the
\* unfailing run leaves.
FailureKeepsWritten(k) ==
    LET whole == AutoMatch(tenants, transactions, tenantTransactions,
                           rejectedMatches).links
    IN  /\ last'.op = "match"
        /\ last'.status # "ok"
        /\ last'.n = 0
        /\ WrittenBefore(k) \sqsubseteq tenantTransactions'
        /\ CompleteAutoLinks(WrittenBefore(k) (-) tenantTransactions)
        /\ tenantTransactions' \sqsubseteq whole
        /\ BagCardinality(tenantTransactions') < BagCardinality(whole)

\* C18: when a write of the link store fails during an auto-match run, the
\* run stops and answers with an error, and every link written before the
\* failure remains in the store as a whole record.
C18_WriteFailure ==
    [][\A k \in 1..NumCsvTx, truncates \in BOOLEAN :
          MatchPOSTWriteFails(k, truncates) => FailureKeepsWritten(k)]_vars

\* The same for the failures that leave the file as the write before left it.
C18_FailedOpen ==
    [][\A k \in 1..NumCsvTx :
          MatchPOSTWriteFails(k, FALSE) => FailureKeepsWritten(k)]_vars

\* A run has failed in its second write with the link of its first write in
\* the store.
C18_SecondWriteFailed ==
    /\ last.status = "writeFailed"
    /\ ~linksTruncated
    /\ Len(transactions) = NumCsvTx
    /\ BagCardinality(tenantTransactions) = 1
    /\ \A tt \in BagToSet(tenantTransactions) : ~tt.manualOverride
    /\ rejectedMatches = EmptyBag

\* C19: a manual assign(T, tx) leaves no rejection (T, tx) in the store and
\* leaves every other rejection as it was, those of tx for other tenants and
\* those of other transactions for T among them, whether or not tx has a
\* link when the request comes.
C19_AssignRejections ==
    [][last'.op = "assign" =>
          /\ ~HasRejection(rejectedMatches', last'.t, last'.x)
          /\ \A rm \in BagToSet(rejectedMatches) \cup BagToSet(rejectedMatches') :
                ~(rm.tenantId = last'.t /\ rm.transactionId = last'.x)
                    => CopiesIn(rm, rejectedMatches') = CopiesIn(rm, rejectedMatches)]_vars

\* C19 witness: an assign(T, tx) was answered while tx had a link that the
\* assign did not make (an automatic one, or one to another tenant), and the
\* store holds a rejection of tx for another tenant and a rejection of
\* another transaction for T.
C19_Witness ==
    /\ last.op = "assign"
    /\ \E tt \in BagToSet(tenantTransactions) :
          /\ tt.transactionId = last.x
          /\ (tt.tenantId # last.t \/ ~tt.manualOverride)
    /\ \E rm \in BagToSet(rejectedMatches) :
          rm.transactionId = last.x /\ rm.tenantId # last.t
    /\ \E rm \in BagToSet(rejectedMatches) :
          rm.tenantId = last.t /\ rm.transactionId # last.x
    /\ ~HasRejection(rejectedMatches, last.t, last.x)

\* Whether auto-match, in the state before it runs, finds for transaction tx
\* a tenant listed before T whose rule tx satisfies and for whom tx is not
\* rejected.
EarlierTaker(tenantId, transaction) ==
    \E i, j \in 1..Len(tenants) :
        /\ i < j
        /\ tenants[j].id = tenantId
        /\ Satisfies(tenants[i], transaction)
        /\ ~HasRejection(rejectedMatches, tenants[i].id, transaction.transactionId)

\* C20: a re-evaluation leaves the rejection store as it was and no
\* rejection for the pair of a link it removed; and whenever auto-match runs
\* while a pair (T, tx) retracted by a re-evaluation has T stored with a rule
\* that tx satisfies, tx stored as a deposit without link and no unassign of
\* tx from T in force, it links tx to T again, unless a tenant listed before
\* T takes it.
C20_Reassignable ==
    [][/\ last'.op = "saveTenant" =>
            /\ rejectedMatches' = rejectedMatches
            /\ \A p \in RemovedPairs : ~HasRejection(rejectedMatches', p[1], p[2])
       /\ last'.op = "match" =>
            \A p \in retracted :
                LET tenant == StoredTenant(tenants, p[1])
                    found == FindTransaction(transactions, p[2])
                IN  (/\ tenant # <<>>
                     /\ found # <<>>
                     /\ found[1].amount < 0
                     /\ LinkCount(tenantTransactions, p[2]) = 0
                     /\ Satisfies(tenant[1], found[1])
                     /\ p \notin suppressed
                     /\ ~EarlierTaker(p[1], found[1]))
                        => /\ last'.status = "ok"
                           /\ last'.n > 0
                           /\ \E tt \in BagToSet(tenantTransactions') :
                                 /\ tt.tenantId = p[1]
                                 /\ tt.transactionId = p[2]
                                 /\ ~tt.manualOverride]_vars

\* C20 witness: auto-match has just linked tx to T automatically, for a pair
\* (T, tx) that a re-evaluation had retracted and that no unassign had ever
\* rejected.
C20_Witness ==
    /\ last.op = "match"
    /\ last.n > 0
    /\ userRejected = {}
    /\ rejectedMatches = EmptyBag
    /\ \E p \in retracted :
          \E tt \in BagToSet(tenantTransactions) :
              /\ tt.tenantId = p[1]
              /\ tt.transactionId = p[2]
              /\ ~tt.manualOverride

\* C21: the rule check of the match route and the rule check of
\* reEvaluateTenantMatches give the same verdict on every stored tenant and
\* every stored transaction, and a re-evaluation of a tenant saved again with
\* the configuration it has, right after an auto-match that created a link,
\* removes nothing.
C21_SameDecision ==
    [][/\ \A i \in 1..Len(tenants), k \in 1..Len(transactions) :
             IsMatch(tenants[i], transactions[k])
                = StillMatches(tenants[i], transactions[k])
       /\ (/\ last.op = "match"
           /\ last.n > 0
           /\ last'.op = "saveTenant"
           /\ tenants' = tenants) =>
              /\ last'.status = "ok"
              /\ last'.n = 0
              /\ tenantTransactions' = tenantTransactions]_vars

\* C21 witness: an edit that removed nothing has been answered while the
\* tenant has an automatic link, made by an auto-match, to the stored deposit.
C21_Witness ==
    /\ last.op = "saveTenant"
    /\ last.isEdit
    /\ last.status = "ok"
    /\ last.n = 0
    /\ \E tt \in BagToSet(tenantTransactions) :
          /\ tt.tenantId = last.t
          /\ ~tt.manualOverride
          /\ transactions[1].transactionId = tt.transactionId
          /\ IsMatch(tenants[1], transactions[1]) = "match"

\* C22 (unique transaction ids) as written: in every reachable state, after
\* any sequence of bank syncs and CSV uploads, a file with a repeated row and
\* a repeated upload among them, no two records of transactions.json share a
\* transactionId.
C22_UniqueIds ==
    \A i, j \in 1..Len(transactions) :
        transactions[i].transactionId = transactions[j].transactionId => i = j

\* The part of C22 that holds: an ingestion adds no record for an id that is
\* stored and leaves the stored records of CSV rows as they were.
C22_StoredIdsKept ==
    [][last'.op = "csvUpload" =>
          /\ Len(transactions') >= Len(transactions)
          /\ \A i \in 1..Len(transactions) : transactions'[i] = transactions[i]
          /\ \A i \in (Len(transactions) + 1)..Len(transactions') :
                transactions'[i].transactionId \notin TransactionIdsOf(transactions)]_vars

\* The ids of the stored tenants and of the stored transactions, in file order.
TenantIdSeq(tenantList) == [i \in 1..Len(tenantList) |-> tenantList[i].id]

TransactionIdSeq(txs) == [i \in 1..Len(txs) |-> txs[i].transactionId]

\* Whether a list of ids went from before to after by deletions that keep
\* the order of what stays and by additions at the end only.
OrderKept(before, after) ==
    LET Stays(id) == id \in Range(after)
        WasThere(id) == id \in Range(before)
    IN  /\ Filter(before, Stays) = Filter(after, WasThere)
        /\ \A i, j \in 1..Len(after) :
              (i < j /\ WasThere(after[j])) => WasThere(after[i])

\* C23: every step keeps the stored order of tenants and of transactions,
\* adding only at the end; a saveTenant of a new id appends it, a saveTenant
\* of a stored id leaves the list of tenant ids as it was, so that auto-match
\* visits the tenants in the same order after an edit; a bank sync that
\* reports modified transactions only leaves the list of transaction ids as it was.
C23_InsertionOrder ==
    [][/\ OrderKept(TenantIdSeq(tenants), TenantIdSeq(tenants'))
       /\ OrderKept(TransactionIdSeq(transactions), TransactionIdSeq(transactions'))
       /\ last'.op = "saveTenant" =>
             IF last'.isEdit
             THEN TenantIdSeq(tenants') = TenantIdSeq(tenants)
             ELSE TenantIdSeq(tenants') = Append(TenantIdSeq(tenants), last'.t)
       /\ (last'.op = "sync" /\ Len(transactions') = Len(transactions)) =>
             TransactionIdSeq(transactions') = TransactionIdSeq(transactions)
       /\ last'.op \in {"deleteTenant", "deleteAccount", "deleteCsvUpload"} =>
             /\ Range(TenantIdSeq(tenants')) \subseteq Range(TenantIdSeq(tenants))
             /\ Range(TransactionIdSeq(transactions'))
                    \subseteq Range(TransactionIdSeq(transactions))]_vars

\* C23 witness: the tenant listed first has been edited while another tenant
\* is listed after it, and the store holds a bank transaction that a sync
\* modified in place before a CSV transaction.
C23_Witness ==
    /\ last.op = "saveTenant"
    /\ last.isEdit
    /\ Len(tenants) = 2
    /\ tenants[1].id = last.t
    /\ Len(transactions) >= 2
    /\ transactions[1] \in {PlaidModified(id) : id \in PlaidTxIds}
    /\ transactions[2].itemId = CsvItem

\* C24: in every reachable state rejected-matches.json holds no pair twice,
\* and rejecting any pair twice from there leaves the file as rejecting it
\* once left it, with the pair in it once.
C24_SetSemantics ==
    /\ \A rm \in BagToSet(rejectedMatches) : CopiesIn(rm, rejectedMatches) = 1
    /\ \A tenantId \in TenantIds, transactionId \in TxIds :
          LET once == addRejectedMatch(rejectedMatches, tenantId, transactionId)
              pair == [tenantId |-> tenantId, transactionId |-> transactionId]
          IN  /\ addRejectedMatch(once, tenantId, transactionId) = once
              /\ CopiesIn(pair, once) = 1
              /\ \A rm \in BagToSet(rejectedMatches) :
                    CopiesIn(rm, once) = CopiesIn(rm, rejectedMatches)

\* C24 witness: an unassign has stored a rejection while the file held
\* another one, so that it holds two rejections of the transaction.
C24_Witness ==
    /\ last.op = "unassign"
    /\ last.t # 0
    /\ \E rm \in BagToSet(rejectedMatches) :
          rm.transactionId = last.x /\ rm.tenantId # last.t
    /\ HasRejection(rejectedMatches, last.t, last.x)
    /\ BagCardinality(rejectedMatches) >= 2

\* C25 (account scoping) as written: every link an auto-match adds joins a
\* stored tenant to a deposit of the account the tenant's accountId names,
\* be it by the deposit's accountId or by its itemId (the id of the stored
\* Account record, which the tenant form offers).
C25_AccountScoped ==
    [][last'.op = "match" =>
          \A tt \in BagToSet(tenantTransactions' (-) tenantTransactions) :
              LET tenant == StoredTenant(tenants, tt.tenantId)
                  found == FindTransaction(transactions, tt.transactionId)
              IN  /\ tenant # <<>>
                  /\ found # <<>>
                  /\ Has(tenant[1], "accountId")
                        => \/ found[1].accountId = tenant[1].accountId
                           \/ found[1].itemId = tenant[1].accountId]_vars

\* C26: in every state reached by auto-match, manual assign, unassign,
\* saveTenant and deleteTenant, no pair (tenantId, transactionId) is at the
\* same time a link of tenant-transactions.json and an entry of
\* rejected-matches.json.
C26_LinkedNotRejected ==
    \A tt \in BagToSet(tenantTransactions) :
        ~HasRejection(rejectedMatches, tt.tenantId, tt.transactionId)

\* C26 witness: an auto-match has linked a transaction to a tenant while the
\* transaction is rejected for another tenant, and a manual link stands for
\* another transaction that is rejected for another tenant too.
C26_Witness ==
    /\ last.op = "match"
    /\ last.n > 0
    /\ \E tt \in BagToSet(tenantTransactions) :
          /\ ~tt.manualOverride
          /\ \E rm \in BagToSet(rejectedMatches) :
                rm.transactionId = tt.transactionId /\ rm.tenantId # tt.tenantId
    /\ \E tt \in BagToSet(tenantTransactions) :
          /\ tt.manualOverride
          /\ \E rm \in BagToSet(rejectedMatches) :
                rm.transactionId = tt.transactionId /\ rm.tenantId # tt.tenantId

\* Whether some stored tenant's rule accepts the transaction while the pair
\* is not rejected.
Matchable(tenantList, rejected, transaction) ==
    \E i \in 1..Len(tenantList) :
        /\ Satisfies(tenantList[i], transaction)
        /\ ~HasRejection(rejected, tenantList[i].id, transaction.transactionId)

\* C27: when an auto-match answers with success, every stored transaction
\* with a negative amount has a link or is accepted by the rule of no tenant
\* for whom it is not rejected.
C27_Complete ==
    [][(last'.op = "match" /\ last'.status = "ok") =>
          \A k \in 1..Len(transactions') :
              transactions'[k].amount < 0 =>
                  \/ LinkCount(tenantTransactions', transactions'[k].transactionId) >= 1
                  \/ ~Matchable(tenants', rejectedMatches', transactions'[k])]_vars

\* C27 witness: a successful auto-match has linked a deposit and has left
\* another one without link, which a tenant's rule accepts and which is
\* rejected for that tenant.
C27_Witness ==
    /\ last.op = "match"
    /\ last.status = "ok"
    /\ last.n > 0
    /\ \E k \in 1..Len(transactions) :
          /\ transactions[k].amount < 0
          /\ LinkCount(tenantTransactions, transactions[k].transactionId) = 0
          /\ \E i \in 1..Len(tenants) :
                /\ Satisfies(tenants[i], transactions[k])
                /\ HasRejection(rejectedMatches, tenants[i].id,
                                transactions[k].transactionId)

\* C28: while auto-match runs and manual assigns of one transaction are in
\* flight together, whatever the order in which the handlers resume, no
\* transaction has two links.
C28_OneLinkInFlight ==
    \A transactionId \in CsvTxIds :
        \A tt, uu \in BagToSet(tenantTransactions) :
            (tt.transactionId = transactionId /\ uu.transactionId = transactionId)
                => (tt = uu /\ CopiesIn(tt, tenantTransactions) = 1)

\* C28 witness: an auto-match has linked a transaction while two manual
\* assigns of it, for the two tenants, were in flight; both are still to resume.
C28_Witness ==
    /\ last.op = "match"
    /\ last.n > 0
    /\ inFlight = {<<tenantId, FirstCsvTx>> : tenantId \in TenantIds}
    /\ \E tt \in BagToSet(tenantTransactions) :
          tt.transactionId = FirstCsvTx /\ ~tt.manualOverride

\* The same with the assigns resumed: both were answered after the auto-match
\* had linked the transaction.
C28_Resumed ==
    /\ last.op = "assign"
    /\ inFlight = {}
    /\ \E tt \in BagToSet(tenantTransactions) :
          tt.transactionId = FirstCsvTx /\ ~tt.manualOverride

\* The bank item's transactions after the pages up to cursor k, applied one
\* page after the other to an empty store.
RECURSIVE AtBank(_)
AtBank(k) ==
    IF k = 0 THEN <<>>
    ELSE LET page == BankPage(k)
         IN  removeTransactions(
                 updateTransactions(saveTransactions(AtBank(k - 1), page.added),
                                    page.modified),
                 page.removed)

\* The stored transactions of the bank item, in file order.
OfBankItem(txs) ==
    LET IsOfItem(t) == t.itemId = PlaidItem IN Filter(txs, IsOfItem)

\* What C29 says of a sync of the bank item: a sync in which a fetch or a
\* write fails leaves the stored cursors as they were; a sync replaces the
\* stored cursor only when nothing failed, and then the store holds the bank
\* item's transactions as they are at the bank at the new cursor, so that no
\* change up to the cursor is skipped.
CursorFollowsWrites(failure) ==
    /\ failure # "none" => syncCursors' = syncCursors
    /\ failure = "none" =>
          /\ getSyncCursor(syncCursors', PlaidItem) = bankHolds
          /\ "transactions.json" \notin truncatedFiles'
          /\ OfBankItem(transactions') = AtBank(bankHolds)

\* C29: the stored cursor of an account is replaced only after the pages up
\* to it were fetched and their changes written; a failing fetch or write
\* leaves the stored cursor unchanged.
C29_CursorOrdering ==
    [][\A failure \in SyncFailures, truncates \in BOOLEAN :
          PlaidSyncPOST(failure, truncates) => CursorFollowsWrites(failure)]_vars

\* The same for the failing writes that leave their file as it was.
C29_FailedOpen ==
    [][\A failure \in SyncFailures :
          PlaidSyncPOST(failure, FALSE) => CursorFollowsWrites(failure)]_vars

\* A sync has advanced the cursor over the three pages of a bank transaction
\* after an earlier sync had stored the transaction and failed.
C29_Resynced ==
    /\ last.op = "sync"
    /\ getSyncCursor(syncCursors, PlaidItem) = BankPages
    /\ truncatedFiles = {}
    /\ \E i \in 1..Len(transactions) : transactions[i].itemId = CsvItem

\* The stores that differ from the stored accounts in access tokens only.
Retokened ==
    {[i \in 1..Len(accounts) |-> [accounts[i] EXCEPT !.accessToken = tokens[i]]] :
        tokens \in [1..Len(accounts) -> AccessTokens \cup {""}]}

\* C30: access tokens never leave the server.  For every stored set of
\* accounts, no entry of the accounts list response and no part of the
\* token-exchange response of a stored bank account has an accessToken
\* field, and every store that differs in access tokens only gets the same
\* accounts list response.
C30_TokensStayOnServer ==
    /\ \A i \in 1..Len(accounts) :
          /\ "accessToken" \notin DOMAIN AccountsGET(accounts)[i]
          /\ accounts[i].accessToken # "" =>
                /\ DOMAIN ExchangeTokenResponse(accounts[i]) = {"success", "account"}
                /\ "accessToken" \notin DOMAIN ExchangeTokenResponse(accounts[i]).account
    /\ \A other \in Retokened : AccountsGET(other) = AccountsGET(accounts)

\* The token exchange has answered with the store holding the CSV account
\* and the bank account with the second of its tokens.
C30_Witness ==
    /\ last.op = "exchangeToken"
    /\ last.status = "ok"
    /\ Len(accounts) = 2
    /\ \E i \in 1..Len(accounts) : accounts[i].accessToken = "access-token-2"
    /\ \E i \in 1..Len(accounts) : accounts[i].accessToken = ""
====
